---- MODULE Spec2Model ----
(***************************************************************************)
(* Model of smarty/injector: the registry strategies (Map, BubbleList,     *)
(* PriorityList), registration validation, Verify, the recursive           *)
(* resolution in get, Injector.Get, Injector.callN and the StackPool.      *)
(* Operations are taken sequentially; one action is one whole call. The    *)
(* concurrent specifications take Get and Call in the steps between which  *)
(* goroutines interleave, and CacheSpec drives the three strategies side   *)
(* by side.                                                                *)
(***************************************************************************)
EXTENDS Integers, Sequences, FiniteSets, TLC

\* ------------------------------------------------------------------ bounds
\* registrations the registry may hold besides the injector's own
MaxKeys == 2

\* goroutines that call Get concurrently
NumThreads == 2

\* Get calls one goroutine makes
MaxCalls == 2

\* Add calls made on a cache before its first Find
MaxAdds == 3

\* ------------------------------------------------------------------- types
\* reflect.Type values used as keys, parameter types and return types
Types == {"Injector", "Car", "Driver", "PRegularDriver", "PInt", "int", "error"}

\* reflect.Type.Kind
Kind(t) ==
  CASE t \in {"Car", "Driver", "error"} -> "Interface"
    [] t \in {"Injector", "PRegularDriver", "PInt"} -> "Pointer"
    [] OTHER -> "Int"

\* Kind of reflect.Type.Elem for the pointer types
ElemKind(t) ==
  CASE t \in {"Injector", "PRegularDriver"} -> "Struct"
    [] t = "PInt" -> "Int"
    [] OTHER -> "Invalid"

\* reflect.Type.Name: the empty string for unnamed types (pointers, funcs)
TypeName(t) == IF Kind(t) = "Pointer" THEN "" ELSE t

\* last dot-separated segment of reflect.Type.String ("*injector.Injector")
ShortName(t) ==
  CASE t = "PRegularDriver" -> "RegularDriver"
    [] OTHER -> t

\* reflect.Type.AssignableTo for the types above: identical types, or a
\* pointer to a struct that implements the interface
AssignableTo(out, key) ==
  \/ out = key
  \/ out = "PRegularDriver" /\ key = "Driver"

\* contracts.Lifecycle
Transient == 0
Scope == 1
Singleton == 2

\* search.ReorderOption
NoReorder == FALSE
Reorder == TRUE

\* CacheStrategy
Strategies == {"Map", "BubbleList", "PriorityList"}

\* --------------------------------------------------------------- functions
\* reflect.Type of a func value: two funcs of one signature have one type
FuncType(in, out, variadic) ==
  [kind |-> "Func", in |-> in, out |-> out, variadic |-> variadic]

\* reflect.Type of a value that is not a func
ValueType(kind) ==
  [kind |-> kind, in |-> <<>>, out |-> <<>>, variadic |-> FALSE]

\* constructor values the callers pass to Register*
Constructors ==
  [ NewRegularCar    |-> FuncType(<<"Driver">>, <<"Car">>, FALSE),
    NewTandemCar     |-> FuncType(<<"PRegularDriver", "Driver">>, <<"Car">>, FALSE),
    NewRegularDriver |-> FuncType(<<>>, <<"Driver">>, FALSE),
    NewLoopDriver    |-> FuncType(<<"Car">>, <<"Driver">>, FALSE),
    NewDriverOrError |-> FuncType(<<>>, <<"Driver", "error">>, FALSE),
    WrapDriver       |-> FuncType(<<"Driver">>, <<"PRegularDriver">>, FALSE),
    NewVariadicCar   |-> FuncType(<<"Driver">>, <<"Car">>, TRUE),
    NoReturn         |-> FuncType(<<>>, <<>>, FALSE),
    CarValue         |-> ValueType("Pointer"),
    NewTwinCar       |-> FuncType(<<"Driver", "Driver">>, <<"Car">>, FALSE),
    NewCarOrError    |-> FuncType(<<"Driver">>, <<"Car", "error">>, FALSE),
    NewCarTriple     |-> FuncType(<<>>, <<"Car", "Driver", "error">>, FALSE),
    NewVariadicDriver     |-> FuncType(<<"Car">>, <<"Driver">>, TRUE),
    NewVariadicNothing    |-> FuncType(<<"Driver">>, <<>>, TRUE),
    NewVariadicCarOrError |-> FuncType(<<"Driver">>, <<"Car", "error">>, TRUE),
    MakeRegularDriver |-> FuncType(<<>>, <<"PRegularDriver">>, FALSE),
    Self             |-> FuncType(<<>>, <<"Injector">>, FALSE) ]

\* -------------------------------------------------------------------- errors
Err(kind, name, chain, wraps) ==
  [kind |-> kind, name |-> name, chain |-> chain, wraps |-> wraps]

NoError == Err("nil", "", 0, <<>>)

\* fmt.Errorf("%w: ...", ErrorX, name)
ErrorOf(kind, name) == Err(kind, name, 0, <<>>)

\* errors.Is(e, kind) for the error values built here (wrapping depth <= 2)
Wraps(e, kind) ==
  \/ e.kind = kind
  \/ \E i \in 1..Len(e.wraps) :
       \/ e.wraps[i].kind = kind
       \/ \E j \in 1..Len(e.wraps[i].wraps) : e.wraps[i].wraps[j].kind = kind

\* ------------------------------------------------------------------ records
Nil == [id |-> 0 - 1, ctor |-> "nil", args |-> <<>>]

\* contracts.ObjectInfo; ConstructorFunction is kept as "is it set"
ObjectInfo(ctor, lifecycle, returnsError) ==
  [ ConstructorType |-> Constructors[ctor],
    ConstructorValue |-> ctor,
    Lifecycle |-> lifecycle,
    Singleton |-> Nil,
    ConstructorFunction |-> FALSE,
    ConstructorReturnsError |-> returnsError ]

\* ---------------------------------------------------------------- strategies
\* index of the first entry of key k, 0 when there is none
IndexOf(entries, k) ==
  IF \E i \in 1..Len(entries) : entries[i].key = k
  THEN CHOOSE i \in 1..Len(entries) :
         /\ entries[i].key = k
         /\ \A j \in 1..(i - 1) : entries[j].key # k
  ELSE 0

Node(k, v) == [key |-> k, value |-> v, accesses |-> 0]

\* a Go map holds its entries in no order: the model keeps them in one
\* canonical order, by the position of the key in KeyOrder
KeyOrder == <<"Injector", "Car", "Driver", "PRegularDriver", "PInt", "int", "error">>

Rank(k) == CHOOSE i \in 1..Len(KeyOrder) : KeyOrder[i] = k

MapAdd(entries, k, v) ==
  IF IndexOf(entries, k) = 0
  THEN SortSeq(Append(entries, Node(k, v)),
               LAMBDA a, b : Rank(a.key) < Rank(b.key))
  ELSE [entries EXCEPT ![IndexOf(entries, k)].value = v]

BubbleAdd(entries, k, v) == Append(entries, Node(k, v))

PriorityAdd(entries, k, v) == <<Node(k, v)>> \o entries

Add(strat, entries, k, v) ==
  CASE strat = "Map" -> MapAdd(entries, k, v)
    [] strat = "BubbleList" -> BubbleAdd(entries, k, v)
    [] OTHER -> PriorityAdd(entries, k, v)

\* BubbleList.reorder(index, &entry): entry is the range loop's copy of the
\* node, so the increment lands on the copy and the stored counters are
\* the ones compared
BubbleReorder(entries, index) ==
  LET entry == [entries[index] EXCEPT !.accesses = @ + 1]
  IN IF index > 1 /\ entries[index].accesses > entries[index - 1].accesses
     THEN [entries EXCEPT ![index - 1] = entries[index],
                          ![index] = entries[index - 1]]
     ELSE entries

\* a reorder that moves the node one place toward the head
PriorityReorder_oneStep(entries, index) ==
  IF index > 1
  THEN [entries EXCEPT ![index - 1] = entries[index], ![index] = entries[index - 1]]
  ELSE entries

\* a reorder that relinks the node without its successors
PriorityReorder_losesTail(entries, index) ==
  IF index > 1
  THEN <<entries[index]>> \o SubSeq(entries, 1, index - 1)
  ELSE entries

\* PriorityList.reorder(previous, current)
PriorityReorder(entries, index) ==
  IF index > 1
  THEN <<entries[index]>> \o SubSeq(entries, 1, index - 1)
         \o SubSeq(entries, index + 1, Len(entries))
  ELSE entries

\* a Find that reorders whatever the option says
Find_ignoresOption(strat, entries, k, reorder) ==
  LET i == IndexOf(entries, k)
  IN IF i = 0
     THEN [found |-> FALSE, value |-> ObjectInfo("NoReturn", Transient, FALSE),
           entries |-> entries]
     ELSE [found |-> TRUE, value |-> entries[i].value,
           entries |-> CASE strat = "BubbleList" -> BubbleReorder(entries, i)
                         [] strat = "PriorityList" -> PriorityReorder(entries, i)
                         [] OTHER -> entries]

\* Find(key, reorder): (value, found) and the entries afterwards
Find(strat, entries, k, reorder) ==
  LET i == IndexOf(entries, k)
  IN IF i = 0
     THEN [found |-> FALSE, value |-> ObjectInfo("NoReturn", Transient, FALSE),
           entries |-> entries]
     ELSE [found |-> TRUE, value |-> entries[i].value,
           entries |-> CASE strat = "BubbleList" /\ reorder -> BubbleReorder(entries, i)
                         [] strat = "PriorityList" /\ reorder -> PriorityReorder(entries, i)
                         [] OTHER -> entries]

\* the key orders one All() iteration can produce: the list order for the
\* lists, any order for the Go map
All(strat, entries) ==
  LET n == Len(entries)
      inOrder == [i \in 1..n |-> entries[i].key]
  IN IF strat = "Map"
     THEN {p \in [1..n -> {entries[i].key : i \in 1..n}] :
             \A i, j \in 1..n : i # j => p[i] # p[j]}
     ELSE {inOrder}

\* the record pointer stored for key k is updated in place
SetInfo(entries, k, info) ==
  [i \in 1..Len(entries) |->
     IF entries[i].key = k THEN [entries[i] EXCEPT !.value = info] ELSE entries[i]]

Keys(entries) == {entries[i].key : i \in 1..Len(entries)}

\* --------------------------------------------------------------------- state
VARIABLES strategy, library, nameToKeyTrie, scopePool, verificationError,
          verified, last, threads, invoker, captured, caches, backing

vars == <<strategy, library, nameToKeyTrie, scopePool, verificationError,
          verified, last, threads, invoker, captured, caches, backing>>

\* what exists only while goroutines resolve concurrently: each goroutine's
\* position, the closure each record's ConstructorFunction points to and the
\* values slice each closure captured, and which backing array each
\* scope-stack slice of the pool and of the goroutines points to
concurrent == <<threads, invoker, captured, backing>>

\* what the last operation returned and did
\* what Find returns for a key it does not hold
NotFound == [found |-> FALSE, value |-> ObjectInfo("NoReturn", Transient, FALSE)]

\* caches that stand beside the injector, one of each strategy, before any
\* Add: their entries, the last call made on all of them and what each
\* returned
NoCaches ==
  [ entries |-> [s \in Strategies |-> <<>>],
    op |-> "", key |-> "", reorder |-> NoReorder,
    results |-> [s \in Strategies |-> NotFound] ]

Outcome(op, key) ==
  [ op |-> op, key |-> key, verifiedBefore |-> verified, err |-> NoError, value |-> Nil,
    invoked |-> <<>>, built |-> <<>>, fnInvoked |-> FALSE, fnArgs |-> <<>>,
    checkOuts |-> 0, checkIns |-> 0, panicked |-> FALSE,
    request |-> [key |-> "", ctor |-> "", lifecycle |-> 0, returnsError |-> FALSE] ]

\* a resolution whose recursion never returned ends the process, and so
\* does a Verify that waits for a mutex its own goroutine holds
Alive == last.err.kind \notin {"StackOverflow", "Deadlock"}

Died(op, key) ==
  /\ last' = [Outcome(op, key) EXCEPT !.err = ErrorOf("StackOverflow", "")]
  /\ UNCHANGED <<caches, strategy, library, nameToKeyTrie, scopePool, verificationError,
                 verified>>
  /\ UNCHANGED concurrent

\* -------------------------------------------------------------- registration
isStructLike(key) == Kind(key) \in {"Struct", "Interface"}

validPointerKey(key) ==
  IF Kind(key) # "Pointer" THEN FALSE ELSE ElemKind(key) \in {"Struct", "Interface"}

\* the checks of register without the one for variadic constructors
validate_allowsVariadic(key, info) ==
  LET t == info.ConstructorType
      NumOut == Len(t.out)
  IN IF ~isStructLike(key) /\ ~validPointerKey(key)
     THEN ErrorOf("NotStructOrInterface", TypeName(key))
     ELSE IF t.kind # "Func"
     THEN ErrorOf("NotAFunction", TypeName(key))
     ELSE IF info.ConstructorReturnsError /\ NumOut # 2
     THEN ErrorOf("WrongNumberOfReturns", TypeName(key))
     ELSE IF ~info.ConstructorReturnsError /\ NumOut > 1
     THEN ErrorOf("TooManyReturns", TypeName(key))
     ELSE IF ~info.ConstructorReturnsError /\ NumOut = 0
     THEN ErrorOf("NoReturns", TypeName(key))
     ELSE IF ~AssignableTo(t.out[1], key)
     THEN ErrorOf("NotAssignable", TypeName(key))
     ELSE NoError

\* the checks of register counting the outputs as if no registration
\* declared an error return
validate_ignoresErrorFlag(key, info) ==
  LET t == info.ConstructorType
      NumOut == Len(t.out)
  IN IF ~isStructLike(key) /\ ~validPointerKey(key)
     THEN ErrorOf("NotStructOrInterface", TypeName(key))
     ELSE IF t.kind # "Func"
     THEN ErrorOf("NotAFunction", TypeName(key))
     ELSE IF NumOut > 1
     THEN ErrorOf("TooManyReturns", TypeName(key))
     ELSE IF NumOut = 0
     THEN ErrorOf("NoReturns", TypeName(key))
     ELSE IF ~AssignableTo(t.out[1], key)
     THEN ErrorOf("NotAssignable", TypeName(key))
     ELSE IF t.variadic
     THEN ErrorOf("VariadicArguments", TypeName(key))
     ELSE NoError

\* the checks of register that precede the lookup of the key, in their order
validate(key, info) ==
  LET t == info.ConstructorType
      NumOut == Len(t.out)
  IN IF ~isStructLike(key) /\ ~validPointerKey(key)
     THEN ErrorOf("NotStructOrInterface", TypeName(key))
     ELSE IF t.kind # "Func"
     THEN ErrorOf("NotAFunction", TypeName(key))
     ELSE IF info.ConstructorReturnsError /\ NumOut # 2
     THEN ErrorOf("WrongNumberOfReturns", TypeName(key))
     ELSE IF ~info.ConstructorReturnsError /\ NumOut > 1
     THEN ErrorOf("TooManyReturns", TypeName(key))
     ELSE IF ~info.ConstructorReturnsError /\ NumOut = 0
     THEN ErrorOf("NoReturns", TypeName(key))
     ELSE IF ~AssignableTo(t.out[1], key)
     THEN ErrorOf("NotAssignable", TypeName(key))
     ELSE IF t.variadic
     THEN ErrorOf("VariadicArguments", TypeName(key))
     ELSE NoError

\* the fields of Injector that register reads and writes
Target(strat, entries, trie, isVerified) ==
  [strategy |-> strat, library |-> entries, nameToKeyTrie |-> trie,
   verified |-> isVerified]

\* register that leaves the verified flag alone
register_keepsVerified(target, key, info) ==
  LET e == validate(key, info)
      f == Find(target.strategy, target.library, key, Reorder)
  IN IF e # NoError
     THEN [err |-> e, target |-> target]
     ELSE IF f.found
     THEN [err |-> ErrorOf("AlreadyRegistered", TypeName(key)),
           target |-> [target EXCEPT !.library = f.entries]]
     ELSE [err |-> NoError,
           target |-> [target EXCEPT
                         !.library = Add(target.strategy, f.entries, key, info),
                         !.nameToKeyTrie = @ \cup {<<ShortName(key), key>>}]]

\* register without the lookup of the key
register_noLookup(target, key, info) ==
  LET cleared == [target EXCEPT !.verified = FALSE]
      e == validate(key, info)
  IN IF e # NoError
     THEN [err |-> e, target |-> cleared]
     ELSE [err |-> NoError,
           target |-> [cleared EXCEPT
                         !.library = Add(target.strategy, target.library, key, info),
                         !.nameToKeyTrie = @ \cup {<<ShortName(key), key>>}]]

\* register that reports a registered key and adds the record all the same
register_addsAnyway(target, key, info) ==
  LET cleared == [target EXCEPT !.verified = FALSE]
      e == validate(key, info)
      f == Find(target.strategy, target.library, key, Reorder)
      added == [cleared EXCEPT
                  !.library = Add(target.strategy, f.entries, key, info),
                  !.nameToKeyTrie = @ \cup {<<ShortName(key), key>>}]
  IN IF e # NoError
     THEN [err |-> e, target |-> cleared]
     ELSE IF f.found
     THEN [err |-> ErrorOf("AlreadyRegistered", TypeName(key)), target |-> added]
     ELSE [err |-> NoError, target |-> added]

\* register(target, key, info): the error returned and the injector
\* afterwards
register(target, key, info) ==
  LET cleared == [target EXCEPT !.verified = FALSE]
      e == validate(key, info)
      f == Find(target.strategy, target.library, key, Reorder)
  IN IF e # NoError
     THEN [err |-> e, target |-> cleared]
     ELSE IF f.found
     THEN [err |-> ErrorOf("AlreadyRegistered", TypeName(key)),
           target |-> [cleared EXCEPT !.library = f.entries]]
     ELSE [err |-> NoError,
           target |-> [cleared EXCEPT
                         !.library = Add(target.strategy, f.entries, key, info),
                         !.nameToKeyTrie = @ \cup {<<ShortName(key), key>>}]]

Req(key, ctor, lifecycle, returnsError) ==
  [key |-> key, ctor |-> ctor, lifecycle |-> lifecycle, returnsError |-> returnsError]

\* the registrations callers attempt: key, constructor, Register variant
Requests ==
  { Req("Car", "NewRegularCar", Transient, FALSE),
    Req("Car", "NewTandemCar", Scope, FALSE),
    Req("Driver", "NewRegularDriver", Scope, FALSE),
    Req("Driver", "NewLoopDriver", Singleton, FALSE),
    Req("Driver", "NewDriverOrError", Singleton, TRUE),
    Req("Driver", "WrapDriver", Transient, FALSE),
    Req("PRegularDriver", "WrapDriver", Singleton, FALSE),
    Req("int", "NewRegularCar", Singleton, FALSE),
    Req("PInt", "NewRegularCar", Transient, FALSE),
    Req("Car", "CarValue", Singleton, FALSE),
    Req("Car", "NoReturn", Scope, FALSE),
    Req("Car", "NewVariadicCar", Transient, FALSE),
    Req("Car", "NewRegularDriver", Singleton, FALSE),
    Req("Car", "NewRegularCar", Singleton, TRUE),
    Req("Driver", "NewDriverOrError", Singleton, FALSE),
    Req("Injector", "Self", Transient, FALSE) }

\* the registrations that exercise the shape checks: every lifecycle and
\* both Register variants for constructors of every shape
ShapeKeys == {"Car", "PRegularDriver", "int"}

ShapeConstructors ==
  { "NewRegularCar", "NewCarOrError", "NoReturn", "NewCarTriple", "CarValue",
    "WrapDriver", "NewVariadicCar", "NewVariadicDriver", "NewVariadicNothing",
    "NewVariadicCarOrError" }

ShapeRequests ==
  { Req(key, ctor, lifecycle, returnsError) :
      key \in ShapeKeys, ctor \in ShapeConstructors,
      lifecycle \in {Transient, Scope, Singleton}, returnsError \in BOOLEAN }

\* valid registrations of one constructor under each lifecycle, for the
\* resolution rules: a Driver without parameters, a Driver whose constructor
\* may return an error, and a Car that takes the Driver twice
LifeRequests ==
  { Req("Driver", "NewRegularDriver", lifecycle, FALSE) :
      lifecycle \in {Transient, Scope, Singleton} }
  \cup { Req("Driver", "NewDriverOrError", lifecycle, TRUE) :
           lifecycle \in {Transient, Scope, Singleton} }
  \cup { Req("Car", "NewTwinCar", lifecycle, FALSE) :
           lifecycle \in {Transient, Singleton} }

\* Injector.RegisterTransient, RegisterScope, RegisterSingleton and their
\* -Error variants; a registration that would grow the registry beyond the
\* bound is not attempted
Register(req) ==
  /\ Alive
  /\ LET info == ObjectInfo(req.ctor, req.lifecycle, req.returnsError)
         r == register(Target(strategy, library, nameToKeyTrie, verified),
                       req.key, info)
     IN /\ Len(r.target.library) <= MaxKeys + 1
        /\ verified' = r.target.verified
        /\ library' = r.target.library
        /\ nameToKeyTrie' = r.target.nameToKeyTrie
        /\ last' = [Outcome("Register", req.key) EXCEPT !.err = r.err, !.request = req]
        /\ UNCHANGED <<caches, strategy, scopePool, verificationError>>
        /\ UNCHANGED concurrent

\* -------------------------------------------------------------- verification
RECURSIVE verifyStack(_, _, _, _, _)

\* verifyStack that returns the wrong error for a repeated signature
verifyStack_wrongKind(strat, entries, focus, stack, iParameter) ==
  IF iParameter > Len(focus.in)
  THEN [err |-> NoError, stack |-> SubSeq(stack, 1, Len(stack) - 1)]
  ELSE LET parameterType == focus.in[iParameter]
           f == Find(strat, entries, parameterType, NoReorder)
           parameterInfo == f.value
       IN IF ~f.found
          THEN [err |-> ErrorOf("NotRegistered", TypeName(parameterType)),
                stack |-> stack]
          ELSE IF \E r \in 1..Len(stack) : stack[r] = parameterInfo.ConstructorType
          THEN [err |-> ErrorOf("NotRegistered", TypeName(parameterType)),
                stack |-> stack]
          ELSE LET pushed == Append(stack, parameterInfo.ConstructorType)
                   sub == verifyStack(strat, entries,
                                      parameterInfo.ConstructorType, pushed, 1)
               IN IF sub.err # NoError
                  THEN sub
                  ELSE verifyStack(strat, entries, focus, sub.stack, iParameter + 1)

\* verifyStack that reports a loop for a parameter type it does not find
verifyStack_loopOnMissing(strat, entries, focus, stack, iParameter) ==
  IF iParameter > Len(focus.in)
  THEN [err |-> NoError, stack |-> SubSeq(stack, 1, Len(stack) - 1)]
  ELSE LET parameterType == focus.in[iParameter]
           f == Find(strat, entries, parameterType, NoReorder)
           parameterInfo == f.value
       IN IF ~f.found
          THEN [err |-> ErrorOf("DependencyLoop", ""), stack |-> stack]
          ELSE IF \E r \in 1..Len(stack) : stack[r] = parameterInfo.ConstructorType
          THEN [err |-> ErrorOf("DependencyLoop", ""), stack |-> stack]
          ELSE LET pushed == Append(stack, parameterInfo.ConstructorType)
                   sub == verifyStack(strat, entries,
                                      parameterInfo.ConstructorType, pushed, 1)
               IN IF sub.err # NoError
                  THEN sub
                  ELSE verifyStack(strat, entries, focus, sub.stack, iParameter + 1)

\* verifyStack that leaves its own entry on the stack when it returns
verifyStack_noPop(strat, entries, focus, stack, iParameter) ==
  IF iParameter > Len(focus.in)
  THEN [err |-> NoError, stack |-> stack]
  ELSE LET parameterType == focus.in[iParameter]
           f == Find(strat, entries, parameterType, NoReorder)
           parameterInfo == f.value
       IN IF ~f.found
          THEN [err |-> ErrorOf("NotRegistered", TypeName(parameterType)),
                stack |-> stack]
          ELSE IF \E r \in 1..Len(stack) : stack[r] = parameterInfo.ConstructorType
          THEN [err |-> ErrorOf("DependencyLoop", ""), stack |-> stack]
          ELSE LET pushed == Append(stack, parameterInfo.ConstructorType)
                   sub == verifyStack(strat, entries,
                                      parameterInfo.ConstructorType, pushed, 1)
               IN IF sub.err # NoError
                  THEN sub
                  ELSE verifyStack(strat, entries, focus, sub.stack, iParameter + 1)

\* verifyStack that passes over a parameter type it does not find
verifyStack_skipsMissing(strat, entries, focus, stack, iParameter) ==
  IF iParameter > Len(focus.in)
  THEN [err |-> NoError, stack |-> SubSeq(stack, 1, Len(stack) - 1)]
  ELSE LET parameterType == focus.in[iParameter]
           f == Find(strat, entries, parameterType, NoReorder)
           parameterInfo == f.value
       IN IF ~f.found
          THEN verifyStack(strat, entries, focus, stack, iParameter + 1)
          ELSE IF \E r \in 1..Len(stack) : stack[r] = parameterInfo.ConstructorType
          THEN [err |-> ErrorOf("DependencyLoop", ""), stack |-> stack]
          ELSE LET pushed == Append(stack, parameterInfo.ConstructorType)
                   sub == verifyStack(strat, entries,
                                      parameterInfo.ConstructorType, pushed, 1)
               IN IF sub.err # NoError
                  THEN sub
                  ELSE verifyStack(strat, entries, focus, sub.stack, iParameter + 1)

\* verifyStack(injector, stack), entered at parameter iParameter of focus
verifyStack(strat, entries, focus, stack, iParameter) ==
  IF iParameter > Len(focus.in)
  THEN [err |-> NoError, stack |-> SubSeq(stack, 1, Len(stack) - 1)]
  ELSE LET parameterType == focus.in[iParameter]
           f == Find(strat, entries, parameterType, NoReorder)
           parameterInfo == f.value
       IN IF ~f.found
          THEN [err |-> ErrorOf("NotRegistered", TypeName(parameterType)),
                stack |-> stack]
          ELSE IF \E r \in 1..Len(stack) : stack[r] = parameterInfo.ConstructorType
          THEN [err |-> ErrorOf("DependencyLoop", ""), stack |-> stack]
          ELSE LET pushed == Append(stack, parameterInfo.ConstructorType)
                   sub == verifyStack(strat, entries,
                                      parameterInfo.ConstructorType, pushed, 1)
               IN IF sub.err # NoError
                  THEN sub
                  ELSE verifyStack(strat, entries, focus, sub.stack, iParameter + 1)

\* verify(injector, key): the error with the arrow-joined trace appended;
\* the names of func types are empty, so the trace carries the stack length
verify(strat, entries, key) ==
  LET info == Find(strat, entries, key, NoReorder).value
      r == verifyStack(strat, entries, info.ConstructorType,
                       <<info.ConstructorType>>, 1)
  IN IF r.err # NoError
     THEN Err(r.err.kind, r.err.name, Len(r.stack), <<r.err>>)
     ELSE NoError

RECURSIVE VerifyAll(_, _, _, _)

\* the loop of Verify stopping one key short
VerifyAll_skipsLast(strat, entries, order, i) ==
  IF i >= Len(order)
  THEN NoError
  ELSE LET e == verify(strat, entries, order[i])
       IN IF e # NoError THEN e ELSE VerifyAll(strat, entries, order, i + 1)

\* the loop of Verify over one All() iteration
VerifyAll(strat, entries, order, i) ==
  IF i > Len(order)
  THEN NoError
  ELSE LET e == verify(strat, entries, order[i])
       IN IF e # NoError THEN e ELSE VerifyAll(strat, entries, order, i + 1)

\* the iterator PriorityList.All returns holds the list's mutex while it
\* yields; the body of the loop in Verify runs inside the yield and calls
\* Find, which locks the same sync.Mutex: with an entry to yield the
\* goroutine waits for itself
VerifyBlocks(strat, entries) == strat = "PriorityList" /\ entries # <<>>

\* Verify(injector): it never returns when the loop blocks, after it has
\* cleared verified and the stored error
Verify ==
  /\ Alive
  /\ IF VerifyBlocks(strategy, library)
     THEN /\ verified' = FALSE
          /\ verificationError' = NoError
          /\ last' = [Outcome("Verify", "") EXCEPT !.err = ErrorOf("Deadlock", "")]
          /\ UNCHANGED <<caches, strategy, library, nameToKeyTrie, scopePool>>
          /\ UNCHANGED concurrent
     ELSE \E order \in All(strategy, library) :
            LET e == VerifyAll(strategy, library, order, 1)
            IN /\ verified' = (e = NoError)
               /\ verificationError' = e
               /\ last' = [Outcome("Verify", "") EXCEPT !.err = e]
               /\ UNCHANGED <<caches, strategy, library, nameToKeyTrie, scopePool>>
               /\ UNCHANGED concurrent

\* ---------------------------------------------------------------- StackPool
\* a CheckOut that returns the last buffer and leaves it on the free-list
CheckOut_peek(stacks) ==
  IF Len(stacks) = 0
  THEN [value |-> <<>>, stacks |-> stacks]
  ELSE [value |-> stacks[Len(stacks)], stacks |-> stacks]

\* StackPool.CheckOut: the buffer returned and the free-list afterwards
CheckOut(stacks) ==
  IF Len(stacks) = 0
  THEN [value |-> <<>>, stacks |-> stacks]
  ELSE [value |-> stacks[Len(stacks)], stacks |-> SubSeq(stacks, 1, Len(stacks) - 1)]

\* StackPool.CheckIn
CheckIn(stacks, value) == Append(stacks, value)

\* ---------------------------------------------------------------- resolution
\* constructors with an error return that may return a non-nil error
FailingConstructors == {"NewDriverOrError"}

\* the constructors that return their error in a call: a choice only where a
\* constructor that can fail is registered
Failures(entries) ==
  IF \E i \in 1..Len(entries) : entries[i].value.ConstructorValue \in FailingConstructors
  THEN SUBSET FailingConstructors
  ELSE {{}}

\* the value a constructor returns next to a non-nil error
Zero == [id |-> 0 - 2, ctor |-> "zero", args |-> <<>>]

\* a constructor call that receives its arguments last parameter first
Construct_lastFirst(ctor, id, args) ==
  [id |-> id, ctor |-> ctor, args |-> [i \in 1..Len(args) |-> args[Len(args) + 1 - i]]]

\* the value reflect.Value.Call yields for constructor ctor: the injector
\* itself for the constructor New registers, a new object otherwise
Construct(ctor, id, args) ==
  IF ctor = "Self"
  THEN [id |-> 0, ctor |-> ctor, args |-> <<>>]
  ELSE [id |-> id, ctor |-> ctor, args |-> args]

\* the record stored for a registered key
InfoOf(entries, k) == entries[IndexOf(entries, k)].value

\* the identities of an object and of the objects it holds
RECURSIVE Identities(_)
Identities(obj) ==
  {obj.id} \cup UNION {Identities(obj.args[i]) : i \in 1..Len(obj.args)}

\* the identities of the objects that are still referenced: the Singleton
\* slots and what the last call handed to its caller
Referenced(entries, outcome) ==
  UNION ( {Identities(entries[i].value.Singleton) : i \in 1..Len(entries)}
          \cup {Identities(outcome.value)}
          \cup {Identities(outcome.fnArgs[i]) : i \in 1..Len(outcome.fnArgs)} )

\* the identity of a newly allocated object: one no referenced object has
Allocate(used) ==
  CHOOSE id \in 1..(Cardinality(used) + 1) :
    /\ id \notin used
    /\ \A other \in 1..(id - 1) : other \in used

\* the state one resolution threads through its recursion
Resolution(entries, scoped, used) ==
  [ entries |-> entries, scoped |-> scoped, used |-> used,
    invoked |-> <<>>, built |-> <<>>, overflow |-> FALSE ]

Returned(value, err, st) == [value |-> value, err |-> err, st |-> st]

RECURSIVE get(_, _, _, _, _)
RECURSIVE ConstructorFunction(_, _, _, _, _, _, _, _)

\* the closure get stores in info.ConstructorFunction, entered at parameter
\* iParameter with the arguments resolved so far in values; path holds the
\* keys whose closure is running, and re-entering one of them never returns
\* (the goroutine's stack overflows)
ConstructorFunction(strat, st, key, info, iParameter, values, fail, path) ==
  LET parametersInfo == info.ConstructorType.in
  IN IF key \in path
     THEN Returned(Nil, ErrorOf("StackOverflow", ""), [st EXCEPT !.overflow = TRUE])
     ELSE IF iParameter <= Len(parametersInfo)
     THEN LET r == get(strat, st, parametersInfo[iParameter], fail, path \cup {key})
          IN IF r.err # NoError
             THEN Returned(Nil, r.err, r.st)
             ELSE ConstructorFunction(strat, r.st, key, info, iParameter + 1,
                                      Append(values, r.value), fail, path)
     ELSE LET called == [st EXCEPT !.invoked = Append(@, info.ConstructorValue)]
          IN IF info.ConstructorReturnsError /\ info.ConstructorValue \in fail
             THEN Returned(Zero, ErrorOf("ConstructorError", info.ConstructorValue),
                           called)
             ELSE IF info.ConstructorValue = "Self"
             THEN Returned(Construct("Self", 0, values), NoError, called)
             ELSE Returned(Construct(info.ConstructorValue, Allocate(st.used), values),
                           NoError, [called EXCEPT !.used = @ \cup {Allocate(st.used)}])

\* get that does not keep the instance it built for a Singleton record
settle_forgetsSingleton(key, info, r) ==
  IF r.err # NoError
  THEN Returned(Nil, r.err, r.st)
  ELSE IF info.Lifecycle = Scope
  THEN Returned(r.value, NoError,
                [r.st EXCEPT !.scoped = Append(@, [Type |-> key, Value |-> r.value])])
  ELSE r

\* get that keeps what the constructor returned next to its error
settle_keepsFailed(key, info, r) ==
  IF info.Lifecycle = Scope
  THEN Returned(IF r.err # NoError THEN Nil ELSE r.value, r.err,
                [r.st EXCEPT !.scoped = Append(@, [Type |-> key, Value |-> r.value])])
  ELSE IF info.Lifecycle = Singleton
  THEN Returned(IF r.err # NoError THEN Nil ELSE r.value, r.err,
                [r.st EXCEPT !.entries =
                   SetInfo(@, key, [InfoOf(@, key) EXCEPT !.Singleton = r.value])])
  ELSE r

\* what get does with the result r of the closure it built or found for a
\* record of the Scope or Singleton lifecycle, or built for a Transient one:
\* nothing is kept when the constructor failed
settle(key, info, r) ==
  IF r.err # NoError
  THEN Returned(Nil, r.err, r.st)
  ELSE IF info.Lifecycle = Scope
  THEN Returned(r.value, NoError,
                [r.st EXCEPT !.scoped = Append(@, [Type |-> key, Value |-> r.value])])
  ELSE IF info.Lifecycle = Singleton
  THEN Returned(r.value, NoError,
                [r.st EXCEPT !.entries =
                   SetInfo(@, key, [InfoOf(@, key) EXCEPT !.Singleton = r.value])])
  ELSE r

\* get stores a new closure in info.ConstructorFunction
memoize(st, key, info) ==
  [st EXCEPT !.entries = SetInfo(@, key, [info EXCEPT !.ConstructorFunction = TRUE]),
             !.built = Append(@, key)]

\* get that never looks a Scope record up on the scope-stack
found_ignoresScope(strat, st, key, info, fail, path) ==
  LET reuse == info.ConstructorFunction /\ info.Lifecycle # Singleton
  IN IF info.Lifecycle = Singleton /\ info.Singleton # Nil
     THEN Returned(info.Singleton, NoError, st)
     ELSE IF reuse /\ info.Lifecycle = Transient
     THEN ConstructorFunction(strat, st, key, info, 1, <<>>, fail, path)
     ELSE settle(key, info,
                 ConstructorFunction(strat,
                                     IF reuse THEN st ELSE memoize(st, key, info),
                                     key, info, 1, <<>>, fail, path))

\* get that keeps a Transient instance on the scope-stack as if it were of
\* the Scope lifecycle
found_scopesTransient(strat, st, key, info, fail, path) ==
  LET inScope == {i \in 1..Len(st.scoped) : st.scoped[i].Type = key}
      first == CHOOSE i \in inScope : \A j \in inScope : i <= j
      reuse == info.ConstructorFunction /\ info.Lifecycle # Singleton
      r == ConstructorFunction(strat, IF reuse THEN st ELSE memoize(st, key, info),
                               key, info, 1, <<>>, fail, path)
  IN IF info.Lifecycle # Singleton /\ inScope # {}
     THEN Returned(st.scoped[first].Value, NoError, st)
     ELSE IF info.Lifecycle = Singleton /\ info.Singleton # Nil
     THEN Returned(info.Singleton, NoError, st)
     ELSE IF info.Lifecycle = Transient /\ r.err = NoError
     THEN Returned(r.value, NoError,
                   [r.st EXCEPT !.scoped = Append(@, [Type |-> key, Value |-> r.value])])
     ELSE settle(key, info, r)

\* the part of get that follows a successful Find: st holds the entries
\* as Find left them, info the record found. A Singleton record never uses
\* the closure stored earlier; a Transient record returns the stored
\* closure's results as they are.
found(strat, st, key, info, fail, path) ==
  LET inScope == {i \in 1..Len(st.scoped) : st.scoped[i].Type = key}
      first == CHOOSE i \in inScope : \A j \in inScope : i <= j
      reuse == info.ConstructorFunction /\ info.Lifecycle # Singleton
  IN IF info.Lifecycle = Scope /\ inScope # {}
     THEN Returned(st.scoped[first].Value, NoError, st)
     ELSE IF info.Lifecycle = Singleton /\ info.Singleton # Nil
     THEN Returned(info.Singleton, NoError, st)
     ELSE IF reuse /\ info.Lifecycle = Transient
     THEN ConstructorFunction(strat, st, key, info, 1, <<>>, fail, path)
     ELSE settle(key, info,
                 ConstructorFunction(strat,
                                     IF reuse THEN st ELSE memoize(st, key, info),
                                     key, info, 1, <<>>, fail, path))

\* a get that returns no error when Find does not find the key
looked_silentOnMissing(strat, st, key, fail, path, f) ==
  IF ~f.found
  THEN Returned(Nil, NoError, [st EXCEPT !.entries = f.entries])
  ELSE found(strat, [st EXCEPT !.entries = f.entries], key, f.value, fail, path)

\* what get does with the result f of library.Find(key, search.Reorder)
looked(strat, st, key, fail, path, f) ==
  IF ~f.found
  THEN Returned(Nil, ErrorOf("NotRegistered", TypeName(key)),
                [st EXCEPT !.entries = f.entries])
  ELSE found(strat, [st EXCEPT !.entries = f.entries], key, f.value, fail, path)

\* get(injector, key, scoped)
get(strat, st, key, fail, path) ==
  looked(strat, st, key, fail, path, Find(strat, st.entries, key, Reorder))

\* assertValidState that looks at the stored error only
assertValidState_errorOnly(isVerified, storedError) ==
  IF storedError # NoError
  THEN Err("BadState", "", 0, <<storedError>>)
  ELSE NoError

\* assertValidState that does not wrap the stored verification error
assertValidState_dropsError(isVerified, storedError) ==
  IF ~isVerified THEN Err("BadState", "", 0, <<>>) ELSE NoError

\* assertValidState(injector)
assertValidState(isVerified, storedError) ==
  IF ~isVerified
  THEN IF storedError # NoError
       THEN Err("BadState", "", 0, <<storedError>>)
       ELSE Err("BadState", "", 0, <<>>)
  ELSE NoError

\* the types callers ask Get for
GetKeys == {"Injector", "Car", "Driver"}

\* Get after assertValidState passed: out is what CheckOut returned, r the
\* result of get on the buffer; the deferred CheckIn hands back the buffer
\* as it was checked out. op and asked are the entry point the caller used
\* and what it asked for: Get and a key, or GetByName and a name
GetReturns(op, asked, out, r) ==
  IF r.st.overflow
  THEN Died(op, asked)
  ELSE /\ library' = r.st.entries
       /\ scopePool' = CheckIn(out.stacks, out.value)
       /\ last' = [Outcome(op, asked) EXCEPT
                     !.err = r.err,
                     !.value = IF r.err # NoError THEN Nil ELSE r.value,
                     !.invoked = r.st.invoked,
                     !.built = r.st.built,
                     !.checkOuts = 1,
                     !.checkIns = 1]
       /\ UNCHANGED <<caches, strategy, nameToKeyTrie, verificationError, verified>>
       /\ UNCHANGED concurrent

\* Get refused before it checks out a scope-stack
GetRefuses(op, asked, invalid) ==
  /\ last' = [Outcome(op, asked) EXCEPT !.err = invalid]
  /\ UNCHANGED <<caches, strategy, library, nameToKeyTrie, scopePool,
                 verificationError, verified>>
  /\ UNCHANGED concurrent

\* the scope-stack Get and callN check out and the resolution state it
\* starts from
Borrowed(out) ==
  [out |-> out, st |-> Resolution(library, out.value, Referenced(library, last))]

GetChecked(key, fail, b) ==
  GetReturns("Get", key, b.out, get(strategy, b.st, key, fail, {}))

\* Injector.Get(key); fail holds the constructors that return an error
\* during this call
Get(key, fail) ==
  /\ Alive
  /\ IF assertValidState(verified, verificationError) # NoError
     THEN GetRefuses("Get", key, assertValidState(verified, verificationError))
     ELSE GetChecked(key, fail, Borrowed(CheckOut(scopePool)))

\* ------------------------------------------------------------ lookup by name
\* the names callers pass to GetByName
Names == {"Injector", "Car", "Driver", "RegularDriver"}

\* a name index that answers with any key it holds
TrieFind_anyKey(trie, name) == {p[2] : p \in trie}

\* nameToKeyTrie.Find(name): the keys indexed under the name
TrieFind(trie, name) == {p[2] : p \in {q \in trie : q[1] = name}}

\* Injector.GetByName(name): the name index is asked first, then Get(key)
\* runs for the key it returned
GetByName(name, fail) ==
  /\ Alive
  /\ IF TrieFind(nameToKeyTrie, name) = {}
     THEN GetRefuses("GetByName", name, ErrorOf("NotRegistered", name))
     ELSE \E key \in TrieFind(nameToKeyTrie, name) :
            IF assertValidState(verified, verificationError) # NoError
            THEN GetRefuses("GetByName", name,
                            assertValidState(verified, verificationError))
            ELSE LET b == Borrowed(CheckOut(scopePool))
                 IN GetReturns("GetByName", name, b.out,
                               get(strategy, b.st, key, fail, {}))

\* ------------------------------------------------------------ function calls
\* function values the callers pass to the Call family
Functions ==
  [ UseCar      |-> FuncType(<<"Car">>, <<>>, FALSE),
    UseDrivers  |-> FuncType(<<"Driver", "Driver">>, <<>>, FALSE),
    DriverName  |-> FuncType(<<"Driver">>, <<"any">>, FALSE),
    UseVariadic |-> FuncType(<<"Driver">>, <<>>, TRUE),
    Strings     |-> ValueType("Slice"),
    UseCarAndDriver |-> FuncType(<<"Car", "Driver">>, <<>>, FALSE),
    DriverPair      |-> FuncType(<<"Driver">>, <<"any", "any">>, FALSE),
    VariadicName    |-> FuncType(<<"Driver">>, <<"any">>, TRUE) ]

\* errors.Join(err, e)
Join(err, e) ==
  IF err = NoError
  THEN Err("Join", "", 0, <<e>>)
  ELSE Err("Join", "", 0, Append(err.wraps, e))

RECURSIVE callParameters(_, _, _, _, _, _, _)

\* a parameter loop that resolves every parameter on an empty scope-stack
callParameters_scopePerParameter(strat, st, parametersInfo, iParameter, values, err, fail) ==
  IF iParameter > Len(parametersInfo)
  THEN [values |-> values, err |-> err, st |-> st, panicked |-> FALSE]
  ELSE LET r == get(strat, [st EXCEPT !.scoped = <<>>], parametersInfo[iParameter],
                    fail, {})
           joined == IF r.err # NoError THEN Join(err, r.err) ELSE err
       IN IF r.value = Nil
          THEN [values |-> values, err |-> joined, st |-> r.st, panicked |-> TRUE]
          ELSE callParameters(strat, r.st, parametersInfo, iParameter + 1,
                              Append(values, r.value), joined, fail)

\* the parameter loop of callN, entered at parameter iParameter: a nil
\* rawValue makes the type assertion rawValue.(reflect.Value) panic
callParameters(strat, st, parametersInfo, iParameter, values, err, fail) ==
  IF iParameter > Len(parametersInfo)
  THEN [values |-> values, err |-> err, st |-> st, panicked |-> FALSE]
  ELSE LET r == get(strat, st, parametersInfo[iParameter], fail, {})
           joined == IF r.err # NoError THEN Join(err, r.err) ELSE err
       IN IF r.value = Nil
          THEN [values |-> values, err |-> joined, st |-> r.st, panicked |-> TRUE]
          ELSE callParameters(strat, r.st, parametersInfo, iParameter + 1,
                              Append(values, r.value), joined, fail)

\* the signature checks at the head of callN
callChecks(functionType, expectedReturnCount) ==
  IF functionType.kind # "Func"
  THEN ErrorOf("NotAFunction", "")
  ELSE IF Len(functionType.out) # expectedReturnCount
  THEN ErrorOf("WrongNumberOfReturns", "")
  ELSE IF functionType.variadic
  THEN ErrorOf("VariadicArguments", "")
  ELSE NoError

\* the entry points of the Call family
CallOps == {"Call", "Call1", "Call2", "Call3", "Call4", "CallN"}

\* the return count each entry point passes to callN
CallShapes == [Call |-> 0, Call1 |-> 1, Call2 |-> 2, Call3 |-> 3, Call4 |-> 4]

\* the calls callers make: entry point and function
CallRequests ==
  { <<"Call", "UseCar">>, <<"Call", "UseDrivers">>, <<"Call1", "DriverName">>,
    <<"CallN", "DriverName">>, <<"Call", "Strings">> }

\* a call that ends before callN checks a scope-stack out: with the error
\* invalid, or with a panic
CallRefused(shape, fn, invalid, panics) ==
  /\ last' = [Outcome(shape, fn) EXCEPT
                !.err = IF panics THEN NoError ELSE invalid,
                !.panicked = panics]
  /\ UNCHANGED <<caches, strategy, library, nameToKeyTrie, scopePool,
                 verificationError, verified>>
  /\ UNCHANGED concurrent

\* a call that went through the parameter loop of callN with result r:
\* the function is invoked unless the loop panicked, the deferred CheckIn
\* hands the buffer back as it was checked out, and an entry point that
\* indexes the returned slice panics when callN returned an error
CallDone(shape, fn, indexed, out, r) ==
  IF r.st.overflow
  THEN Died(shape, fn)
  ELSE /\ library' = r.st.entries
       /\ scopePool' = CheckIn(out.stacks, out.value)
       /\ last' = [Outcome(shape, fn) EXCEPT
                     !.err = IF r.panicked \/ (indexed /\ r.err # NoError)
                             THEN NoError ELSE r.err,
                     !.panicked = r.panicked \/ (indexed /\ r.err # NoError),
                     !.invoked = r.st.invoked,
                     !.built = r.st.built,
                     !.fnInvoked = ~r.panicked,
                     !.fnArgs = IF r.panicked THEN <<>> ELSE r.values,
                     !.checkOuts = 1,
                     !.checkIns = 1]
       /\ UNCHANGED <<caches, strategy, nameToKeyTrie, verificationError, verified>>
       /\ UNCHANGED concurrent

CallChecked(shape, fn, fail, b) ==
  CallDone(shape, fn, shape \notin {"Call", "CallN"}, b.out,
           callParameters(strategy, b.st, Functions[fn].in, 1, <<>>, NoError, fail))

\* the return count the entry point passes to callN
expectedReturnCount(shape, fn) ==
  IF shape = "CallN" THEN Len(Functions[fn].out) ELSE CallShapes[shape]

\* Injector.Call, Call1..Call4 and CallN around callN(function, count).
\* CallN reads NumOut of the value first, which panics for a non-function;
\* Call1..Call4 index the nil slice callN returns next to an error.
Call(shape, fn, fail) ==
  /\ Alive
  /\ IF shape = "CallN" /\ Functions[fn].kind # "Func"
     THEN CallRefused(shape, fn, NoError, TRUE)
     ELSE IF callChecks(Functions[fn], expectedReturnCount(shape, fn)) # NoError
     THEN CallRefused(shape, fn,
                      callChecks(Functions[fn], expectedReturnCount(shape, fn)),
                      shape \notin {"Call", "CallN"})
     ELSE CallChecked(shape, fn, fail, Borrowed(CheckOut(scopePool)))

\* -------------------------------------------------------------- goroutines
Threads == 1..NumThreads

\* the types the goroutines ask Get for
ConcKeys == {"Car", "Driver"}

\* the functions the goroutines pass to Call
ConcFunctions == {"UseCar"}

\* a closure get stored in info.ConstructorFunction is known by the
\* goroutine that created it and the key of its record, the closure callN
\* runs by the goroutine and the function
Closures == Threads \X (ConcKeys \cup ConcFunctions)

NoClosure == <<0, "">>

\* one activation of get: where it stands, the closure whose body it runs
\* and the parameter that closure resolves
Frame(key, pc) ==
  [key |-> key, pc |-> pc, closure |-> NoClosure, iParameter |-> 0, obj |-> Nil]

\* a goroutine outside any call: the number of its calls so far, what its
\* last Get returned, and of its current call the scope-stack, the objects
\* its resolutions yielded and the arguments its constructor invocations
\* received
Idle ==
  [ stack |-> <<>>, scoped |-> <<>>, out |-> <<>>, calls |-> 0, value |-> Nil,
    err |-> NoError, resolved |-> {}, received |-> {}, wrote |-> {} ]

\* the backing arrays of the scope-stacks: none is allocated, the free-list
\* of the pool is empty and no goroutine holds a slice
NoBacking == [free |-> <<>>, held |-> [t \in Threads |-> 0], made |-> 0]

\* goroutine t checks a scope-stack out: the slice points to the array the
\* last slice of the free-list points to, or to the array make allocates
Take(t) ==
  LET out == CheckOut(backing.free)
  IN IF backing.free = <<>>
     THEN [backing EXCEPT !.held[t] = backing.made + 1, !.made = @ + 1]
     ELSE [backing EXCEPT !.held[t] = out.value, !.free = out.stacks]

\* the deferred CheckIn of goroutine t's call appends the slice it took
Give(t) ==
  [backing EXCEPT !.free = CheckIn(@, backing.held[t]), !.held[t] = 0]

\* ----------------------------------------------------------------------- New
\* New(cacheStrategy...): the injector registers itself as a singleton
Init ==
  /\ strategy \in Strategies
  /\ library = Add(strategy, <<>>, "Injector", ObjectInfo("Self", Singleton, FALSE))
  /\ nameToKeyTrie = {<<ShortName("Injector"), "Injector">>}
  /\ scopePool = <<>>
  /\ verificationError = NoError
  /\ verified = FALSE
  /\ last = [Outcome("New", "") EXCEPT !.verifiedBefore = FALSE]
  /\ threads = [t \in Threads |-> Idle]
  /\ invoker = [k \in ConcKeys |-> NoClosure]
  /\ captured = [c \in Closures |-> <<>>]
  /\ caches = NoCaches
  /\ backing = NoBacking

Next ==
  \/ \E req \in Requests : Register(req)
  \/ Verify
  \/ \E key \in GetKeys, fail \in Failures(library) : Get(key, fail)
  \/ \E c \in CallRequests, fail \in Failures(library) : Call(c[1], c[2], fail)

Spec == Init /\ [][Next]_vars

\* the operations over the registrations that exercise the lifecycles
LifeNext ==
  \/ \E req \in LifeRequests : Register(req)
  \/ Verify
  \/ \E key \in GetKeys, fail \in Failures(library) : Get(key, fail)
  \/ \E fn \in {"UseCar", "UseDrivers"}, fail \in Failures(library) :
       Call("Call", fn, fail)

LifeSpec == Init /\ [][LifeNext]_vars

\* the registrations of the runs that exercise the Call family
CallRegistrations ==
  {Req("Driver", "NewRegularDriver", lifecycle, FALSE) :
     lifecycle \in {Transient, Scope, Singleton}}
  \cup {Req("Car", "NewTwinCar", lifecycle, FALSE) :
          lifecycle \in {Transient, Scope, Singleton}}

\* every entry point of the Call family with every function value
CheckedCalls == CallOps \X DOMAIN Functions

CallNext ==
  \/ \E req \in CallRegistrations : Register(req)
  \/ Verify
  \/ \E c \in CheckedCalls : Call(c[1], c[2], {})

CallSpec == Init /\ [][CallNext]_vars

\* the registrations of the runs that look records up by name
NameRequests ==
  { Req("Car", "NewRegularCar", Transient, FALSE),
    Req("Driver", "NewRegularDriver", Transient, FALSE),
    Req("Driver", "NewDriverOrError", Singleton, TRUE),
    Req("PRegularDriver", "WrapDriver", Scope, FALSE) }

NameKeys == {"Car", "Driver", "PRegularDriver"}

NameNext ==
  \/ \E req \in NameRequests : Register(req)
  \/ Verify
  \/ \E key \in NameKeys, fail \in Failures(library) : Get(key, fail)
  \/ \E name \in Names, fail \in Failures(library) : GetByName(name, fail)

NameSpec == Init /\ [][NameNext]_vars

\* the registrations of the runs that resolve a graph of Transient records:
\* a Driver, a *RegularDriver that takes the Driver, and a Car that takes
\* the *RegularDriver and the Driver
GraphRequests ==
  { Req("Driver", "NewRegularDriver", Transient, FALSE),
    Req("PRegularDriver", "WrapDriver", Transient, FALSE),
    Req("Car", "NewTandemCar", Transient, FALSE) }

\* the injector after the registrations in order
RECURSIVE Registered(_, _)
Registered(strat, order) ==
  IF order = <<>>
  THEN Target(strat,
              Add(strat, <<>>, "Injector", ObjectInfo("Self", Singleton, FALSE)),
              {<<ShortName("Injector"), "Injector">>}, FALSE)
  ELSE LET req == order[Len(order)]
       IN register(Registered(strat, SubSeq(order, 1, Len(order) - 1)), req.key,
                   ObjectInfo(req.ctor, req.lifecycle, req.returnsError)).target

\* the injector after the registration phase: some of the registrations,
\* each made once, in any order
GraphInit ==
  /\ strategy \in Strategies
  /\ \E order \in UNION {[1..n -> GraphRequests] :
                          n \in 0..Cardinality(GraphRequests)} :
       /\ \A i, j \in 1..Len(order) : i # j => order[i] # order[j]
       /\ library = Registered(strategy, order).library
       /\ nameToKeyTrie = Registered(strategy, order).nameToKeyTrie
  /\ verified = FALSE
  /\ verificationError = NoError
  /\ scopePool = <<>>
  /\ last = [Outcome("Register", "") EXCEPT !.verifiedBefore = FALSE]
  /\ threads = [t \in Threads |-> Idle]
  /\ invoker = [k \in ConcKeys |-> NoClosure]
  /\ captured = [c \in Closures |-> <<>>]
  /\ caches = NoCaches
  /\ backing = NoBacking

GraphNext ==
  \/ Verify
  \/ \E key \in {req.key : req \in GraphRequests} : Get(key, {})

GraphSpec == GraphInit /\ [][GraphNext]_vars

\* the registrations of the runs that exercise Verify: one constructor
\* registered for two keys, a Car that reaches both, a Car that takes one
\* key twice, and constructors that close a loop
VerifyRequests ==
  { Req("Driver", "MakeRegularDriver", Singleton, FALSE),
    Req("PRegularDriver", "MakeRegularDriver", Transient, FALSE),
    Req("PRegularDriver", "WrapDriver", Scope, FALSE),
    Req("Car", "NewTandemCar", Transient, FALSE),
    Req("Car", "NewTwinCar", Singleton, FALSE),
    Req("Driver", "NewLoopDriver", Transient, FALSE),
    Req("Driver", "WrapDriver", Transient, FALSE) }

\* the injector after the registration phase: up to three of the
\* registrations, each made once, in any order
VerifyInit ==
  /\ strategy \in Strategies
  /\ \E order \in UNION {[1..n -> VerifyRequests] : n \in 0..3} :
       /\ \A i, j \in 1..Len(order) : i # j => order[i] # order[j]
       /\ library = Registered(strategy, order).library
       /\ nameToKeyTrie = Registered(strategy, order).nameToKeyTrie
  /\ verified = FALSE
  /\ verificationError = NoError
  /\ scopePool = <<>>
  /\ last = [Outcome("Register", "") EXCEPT !.verifiedBefore = FALSE]
  /\ threads = [t \in Threads |-> Idle]
  /\ invoker = [k \in ConcKeys |-> NoClosure]
  /\ captured = [c \in Closures |-> <<>>]
  /\ caches = NoCaches
  /\ backing = NoBacking

VerifyNext ==
  \/ Verify
  \/ \E key \in {req.key : req \in VerifyRequests} : Get(key, {})

VerifySpec == VerifyInit /\ [][VerifyNext]_vars

\* registrations only, over the requests that exercise the shape checks
ShapeNext == \E req \in ShapeRequests : Register(req)

ShapeSpec == Init /\ [][ShapeNext]_vars

\* ------------------------------------------------------ concurrent resolution
\* Get called from several goroutines once the registration phase is over.
\* One step is one access to memory the goroutines share: a Find under the
\* registry's mutex together with the read of the record it returns, the
\* write of info.ConstructorFunction, its read, a write to the values slice
\* a closure captured, the read of that slice by reflect.Value.Call, the
\* write of info.Singleton, and the pool's CheckOut and CheckIn.

\* the registrations of the registration phase: a Driver under any
\* lifecycle and a Transient Car that takes it
ConcRegistry(strat, lifecycle) ==
  LET new == Target(strat,
                    Add(strat, <<>>, "Injector", ObjectInfo("Self", Singleton, FALSE)),
                    {<<ShortName("Injector"), "Injector">>}, FALSE)
      driver == register(new, "Driver",
                         ObjectInfo("NewRegularDriver", lifecycle, FALSE)).target
  IN register(driver, "Car", ObjectInfo("NewRegularCar", Transient, FALSE)).target

\* the injector after the registration phase and a successful Verify
ConcInit ==
  /\ strategy \in Strategies
  /\ \E lifecycle \in {Transient, Scope, Singleton} :
       /\ library = ConcRegistry(strategy, lifecycle).library
       /\ nameToKeyTrie = ConcRegistry(strategy, lifecycle).nameToKeyTrie
  /\ ~VerifyBlocks(strategy, library)
  /\ \E order \in All(strategy, library) :
       VerifyAll(strategy, library, order, 1) = NoError
  /\ verified = TRUE
  /\ verificationError = NoError
  /\ scopePool = <<>>
  /\ last = [Outcome("Verify", "") EXCEPT !.verifiedBefore = FALSE]
  /\ threads = [t \in Threads |-> Idle]
  /\ invoker = [k \in ConcKeys |-> NoClosure]
  /\ captured = [c \in Closures |-> <<>>]
  /\ caches = NoCaches
  /\ backing = NoBacking

\* the identities of the objects a goroutine holds
HeldBy(th) ==
  UNION ( {Identities(th.value)}
          \cup {Identities(th.stack[i].obj) : i \in 1..Len(th.stack)}
          \cup {Identities(th.scoped[i].Value) : i \in 1..Len(th.scoped)}
          \cup {Identities(o) : o \in th.resolved} )

\* the identities of the objects that are still referenced somewhere
Live ==
  UNION ( {Identities(library[i].value.Singleton) : i \in 1..Len(library)}
          \cup {HeldBy(threads[t]) : t \in Threads}
          \cup UNION {{Identities(captured[c][i]) : i \in 1..Len(captured[c])} :
                        c \in Closures} )

\* the frame a goroutine is executing
Top(th) == th.stack[Len(th.stack)]

\* the closure's loop in the frame on top of stack moves to its next
\* parameter: it calls get for it, or, past the last one, goes on to call
\* the constructor (the function, in the closure of callN)
Advance(entries, stack) ==
  LET top == stack[Len(stack)]
      ofCallN == top.key \in DOMAIN Functions
      in == IF ofCallN
            THEN Functions[top.key].in
            ELSE InfoOf(entries, top.key).ConstructorType.in
      i == top.iParameter + 1
      moved == [stack EXCEPT ![Len(stack)].iParameter = i]
  IN IF i > Len(in)
     THEN [moved EXCEPT ![Len(stack)].pc = IF ofCallN THEN "invoke" ELSE "call"]
     ELSE Append(moved, Frame(in[i], "find"))

\* the frame on top of stack enters the body of closure c
Enter(entries, stack, c) ==
  Advance(entries, [stack EXCEPT ![Len(stack)].closure = c,
                                 ![Len(stack)].iParameter = 0,
                                 ![Len(stack)].pc = "param"])

\* a return that hands the buffer back to the pool only when the call
\* succeeded
Returns_leaksOnError(t, th, value, err) ==
  LET rest == SubSeq(th.stack, 1, Len(th.stack) - 1)
  IN IF rest = <<>> \/ err # NoError
     THEN /\ scopePool' = IF err # NoError THEN scopePool ELSE CheckIn(scopePool, th.out)
          /\ backing' = IF err # NoError
                        THEN [backing EXCEPT !.held[t] = 0]
                        ELSE Give(t)
          /\ threads' = [threads EXCEPT ![t] =
                           [th EXCEPT !.stack = <<>>,
                                      !.scoped = <<>>,
                                      !.calls = @ + 1,
                                      !.value = IF err # NoError THEN Nil ELSE value,
                                      !.err = err]]
          /\ UNCHANGED captured
     ELSE LET parent == rest[Len(rest)]
          IN /\ captured' = [captured EXCEPT
                               ![parent.closure][parent.iParameter] = value]
             /\ threads' = [threads EXCEPT ![t] =
                              [th EXCEPT !.stack = Advance(library, rest),
                                         !.resolved = @ \cup {value}]]
             /\ UNCHANGED <<scopePool, backing>>

\* a return whose CheckIn hands back the scope-stack as the call left it
Returns_checksInScoped(t, th, value, err) ==
  LET rest == SubSeq(th.stack, 1, Len(th.stack) - 1)
  IN IF rest = <<>> \/ err # NoError
     THEN /\ scopePool' = CheckIn(scopePool, th.scoped)
          /\ backing' = Give(t)
          /\ threads' = [threads EXCEPT ![t] =
                           [th EXCEPT !.stack = <<>>,
                                      !.scoped = <<>>,
                                      !.calls = @ + 1,
                                      !.value = IF err # NoError THEN Nil ELSE value,
                                      !.err = err]]
          /\ UNCHANGED captured
     ELSE LET parent == rest[Len(rest)]
          IN /\ captured' = [captured EXCEPT
                               ![parent.closure][parent.iParameter] = value]
             /\ threads' = [threads EXCEPT ![t] =
                              [th EXCEPT !.stack = Advance(library, rest),
                                         !.resolved = @ \cup {value}]]
             /\ UNCHANGED <<scopePool, backing>>

\* the get activation on top of th's stack returns (value, err). An error
\* unwinds every frame without another shared access and Get returns it (in
\* callN the type assertion on the nil value panics); the last frame's value
\* is what Get returns; either way the deferred CheckIn hands back the
\* buffer as it was checked out. Otherwise the closure of the calling frame
\* stores the value in the values slice it captured and moves on.
Returns(t, th, value, err) ==
  LET rest == SubSeq(th.stack, 1, Len(th.stack) - 1)
  IN IF rest = <<>> \/ err # NoError
     THEN /\ scopePool' = CheckIn(scopePool, th.out)
          /\ backing' = Give(t)
          /\ threads' = [threads EXCEPT ![t] =
                           [th EXCEPT !.stack = <<>>,
                                      !.scoped = <<>>,
                                      !.calls = @ + 1,
                                      !.value = IF err # NoError THEN Nil ELSE value,
                                      !.err = err]]
          /\ UNCHANGED captured
     ELSE LET parent == rest[Len(rest)]
          IN /\ captured' = [captured EXCEPT
                               ![parent.closure][parent.iParameter] = value]
             /\ threads' = [threads EXCEPT ![t] =
                              [th EXCEPT !.stack = Advance(library, rest),
                                         !.resolved = @ \cup {value}]]
             /\ UNCHANGED <<scopePool, backing>>

\* Injector.Get up to its call of get: assertValidState passes on the
\* verified injector, the pool hands out a scope-stack
StartGet(t, key) ==
  /\ threads[t].stack = <<>>
  /\ threads[t].calls < MaxCalls
  /\ assertValidState(verified, verificationError) = NoError
  /\ LET out == CheckOut(scopePool)
     IN /\ scopePool' = out.stacks
        /\ backing' = Take(t)
        /\ threads' = [threads EXCEPT ![t] =
                         [@ EXCEPT !.stack = <<Frame(key, "find")>>,
                                   !.scoped = out.value,
                                   !.out = out.value,
                                   !.resolved = {},
                                   !.received = {},
                                   !.wrote = {}]]
  /\ UNCHANGED <<caches, strategy, library, nameToKeyTrie, verificationError, verified,
                 last, invoker, captured>>

\* get from library.Find to the end of the switch on the lifecycle
FindStep(t) ==
  LET th == threads[t]
      key == Top(th).key
      f == Find(strategy, library, key, Reorder)
      info == f.value
      inScope == {i \in 1..Len(th.scoped) : th.scoped[i].Type = key}
      first == CHOOSE i \in inScope : \A j \in inScope : i <= j
  IN /\ th.stack # <<>>
     /\ Top(th).pc = "find"
     /\ library' = f.entries
     /\ IF ~f.found
        THEN Returns(t, th, Nil, ErrorOf("NotRegistered", TypeName(key)))
        ELSE IF info.Lifecycle = Scope /\ inScope # {}
        THEN Returns(t, th, th.scoped[first].Value, NoError)
        ELSE IF info.Lifecycle = Singleton /\ info.Singleton # Nil
        THEN Returns(t, th, info.Singleton, NoError)
        ELSE IF info.Lifecycle # Singleton /\ invoker[key] # NoClosure
        THEN /\ threads' = [threads EXCEPT ![t].stack =
                              Enter(library, th.stack, invoker[key])]
             /\ UNCHANGED <<captured, scopePool, backing>>
        ELSE /\ threads' = [threads EXCEPT ![t].stack[Len(th.stack)].pc = "store"]
             /\ UNCHANGED <<captured, scopePool, backing>>
     /\ UNCHANGED <<caches, strategy, nameToKeyTrie, verificationError, verified, last,
                    invoker>>

\* get makes the values slice and assigns the closure that captures it to
\* info.ConstructorFunction
StoreStep(t) ==
  LET th == threads[t]
      key == Top(th).key
      info == InfoOf(library, key)
  IN /\ th.stack # <<>>
     /\ Top(th).pc = "store"
     /\ captured' = [captured EXCEPT ![<<t, key>>] =
                       [i \in 1..Len(info.ConstructorType.in) |-> Nil]]
     /\ invoker' = [invoker EXCEPT ![key] = <<t, key>>]
     /\ library' = SetInfo(library, key, [info EXCEPT !.ConstructorFunction = TRUE])
     /\ threads' = [threads EXCEPT ![t].stack[Len(th.stack)].pc = "load"]
     /\ UNCHANGED <<caches, strategy, nameToKeyTrie, verificationError, verified, last,
                    scopePool, backing>>

\* get reads info.ConstructorFunction again to call it
LoadStep(t) ==
  LET th == threads[t]
  IN /\ th.stack # <<>>
     /\ Top(th).pc = "load"
     /\ threads' = [threads EXCEPT ![t].stack =
                      Enter(library, th.stack, invoker[Top(th).key])]
     /\ UNCHANGED <<caches, strategy, library, nameToKeyTrie, verificationError, verified,
                    last, scopePool, invoker, captured, backing>>

\* a write of info.Singleton that only fills an empty slot
storeSingleton_firstWins(entries, key, obj) ==
  IF InfoOf(entries, key).Singleton = Nil
  THEN SetInfo(entries, key, [InfoOf(entries, key) EXCEPT !.Singleton = obj])
  ELSE entries

\* the write of info.Singleton
storeSingleton(entries, key, obj) ==
  SetInfo(entries, key, [InfoOf(entries, key) EXCEPT !.Singleton = obj])

\* the closure calls the constructor with the values slice as it is now;
\* a Transient record's get returns the object, a Scope record's get
\* appends it to the goroutine's scope-stack first, a Singleton record's
\* get has info.Singleton left to write
CallStep(t) ==
  LET th == threads[t]
      top == Top(th)
      info == InfoOf(library, top.key)
      values == captured[top.closure]
      obj == Construct(info.ConstructorValue, Allocate(Live), values)
      called == [th EXCEPT !.received = @ \cup {[ctor |-> info.ConstructorValue,
                                                 args |-> values]}]
  IN /\ th.stack # <<>>
     /\ top.pc = "call"
     /\ IF info.Lifecycle = Singleton
        THEN /\ threads' = [threads EXCEPT ![t] =
                              [called EXCEPT !.stack[Len(th.stack)].pc = "settle",
                                             !.stack[Len(th.stack)].obj = obj]]
             /\ UNCHANGED <<captured, scopePool, backing>>
        ELSE IF info.Lifecycle = Scope
        THEN Returns(t, [called EXCEPT !.scoped =
                           Append(@, [Type |-> top.key, Value |-> obj])],
                     obj, NoError)
        ELSE Returns(t, called, obj, NoError)
     /\ UNCHANGED <<caches, strategy, library, nameToKeyTrie, verificationError, verified,
                    last, invoker>>

\* get assigns the object to info.Singleton and returns it
SettleStep(t) ==
  LET th == threads[t]
      top == Top(th)
  IN /\ th.stack # <<>>
     /\ top.pc = "settle"
     /\ library' = storeSingleton(library, top.key, top.obj)
     /\ Returns(t, [th EXCEPT !.wrote = @ \cup {top.key}], top.obj, NoError)
     /\ UNCHANGED <<caches, strategy, nameToKeyTrie, verificationError, verified, last,
                    invoker>>

ConcNext ==
  \E t \in Threads :
    \/ \E key \in ConcKeys : StartGet(t, key)
    \/ FindStep(t)
    \/ StoreStep(t)
    \/ LoadStep(t)
    \/ CallStep(t)
    \/ SettleStep(t)

ConcSpec == ConcInit /\ [][ConcNext]_vars

\* ------------------------------------------------- concurrent Get and Call
\* the registrations of the registration phase: a Scope Driver with the
\* Car of ConcRegistry, or alone, so that Car is not registered
PoolRegistries(strat) ==
  {ConcRegistry(strat, Scope)}
  \cup {register(Target(strat,
                         Add(strat, <<>>, "Injector",
                             ObjectInfo("Self", Singleton, FALSE)),
                         {<<ShortName("Injector"), "Injector">>}, FALSE),
                  "Driver", ObjectInfo("NewRegularDriver", Scope, FALSE)).target}

\* the injector after the registration phase and a successful Verify
PoolInit ==
  /\ strategy \in Strategies
  /\ \E registry \in PoolRegistries(strategy) :
       /\ library = registry.library
       /\ nameToKeyTrie = registry.nameToKeyTrie
  /\ ~VerifyBlocks(strategy, library)
  /\ \E order \in All(strategy, library) :
       VerifyAll(strategy, library, order, 1) = NoError
  /\ verified = TRUE
  /\ verificationError = NoError
  /\ scopePool = <<>>
  /\ last = [Outcome("Verify", "") EXCEPT !.verifiedBefore = FALSE]
  /\ threads = [t \in Threads |-> Idle]
  /\ invoker = [k \in ConcKeys |-> NoClosure]
  /\ captured = [c \in Closures |-> <<>>]
  /\ caches = NoCaches
  /\ backing = NoBacking

\* Injector.Call up to the first get of its closure: the function passes
\* the signature checks of callN, which makes the values slice, takes a
\* scope-stack from the pool and runs the closure that captured both
StartCall(t, fn) ==
  /\ threads[t].stack = <<>>
  /\ threads[t].calls < MaxCalls
  /\ callChecks(Functions[fn], expectedReturnCount("Call", fn)) = NoError
  /\ LET out == CheckOut(scopePool)
     IN /\ scopePool' = out.stacks
        /\ backing' = Take(t)
        /\ threads' = [threads EXCEPT ![t] =
                         [@ EXCEPT !.stack = Enter(library, <<Frame(fn, "param")>>,
                                                   <<t, fn>>),
                                   !.scoped = out.value,
                                   !.out = out.value,
                                   !.resolved = {},
                                   !.received = {},
                                   !.wrote = {}]]
  /\ captured' = [captured EXCEPT ![<<t, fn>>] =
                    [i \in 1..Len(Functions[fn].in) |-> Nil]]
  /\ UNCHANGED <<caches, strategy, library, nameToKeyTrie, verificationError, verified,
                 last, invoker>>

\* the closure of callN calls the function with the values slice, callN
\* returns and the deferred CheckIn hands the buffer back as it was
\* checked out
InvokeStep(t) ==
  LET th == threads[t]
  IN /\ th.stack # <<>>
     /\ Top(th).pc = "invoke"
     /\ scopePool' = CheckIn(scopePool, th.out)
     /\ backing' = Give(t)
     /\ threads' = [threads EXCEPT ![t] =
                      [th EXCEPT !.stack = <<>>,
                                 !.scoped = <<>>,
                                 !.calls = @ + 1,
                                 !.value = Nil,
                                 !.err = NoError]]
     /\ UNCHANGED <<caches, strategy, library, nameToKeyTrie, verificationError, verified,
                    last, invoker, captured>>

\* the steps of the goroutines; none of the records they resolve is of the
\* Singleton lifecycle, so no get reaches the write of info.Singleton
PoolNext ==
  \E t \in Threads :
    \/ \E key \in ConcKeys : StartGet(t, key)
    \/ \E fn \in ConcFunctions : StartCall(t, fn)
    \/ FindStep(t)
    \/ StoreStep(t)
    \/ LoadStep(t)
    \/ CallStep(t)
    \/ InvokeStep(t)

PoolSpec == PoolInit /\ [][PoolNext]_vars

\* ------------------------------------------------- the strategies compared
\* keys and records given to the caches, and a key that is never added
CacheKeys == {"Injector", "Car", "Driver"}

CacheValues ==
  { ObjectInfo("NewRegularDriver", Transient, FALSE),
    ObjectInfo("NewLoopDriver", Singleton, FALSE) }

FindKeys == CacheKeys \cup {"PInt"}

\* one cache of each strategy, empty, beside a new injector
CacheInit ==
  /\ Init
  /\ strategy = "Map"

\* Add(k, v) on each of the caches, before the first Find
CacheAdd(k, v) ==
  /\ caches.op # "Find"
  /\ Len(caches.entries["BubbleList"]) < MaxAdds
  /\ caches' = [caches EXCEPT
                  !.entries = [s \in Strategies |-> Add(s, caches.entries[s], k, v)],
                  !.op = "Add",
                  !.key = k]
  /\ UNCHANGED <<strategy, library, nameToKeyTrie, scopePool, verificationError,
                 verified, last>>
  /\ UNCHANGED concurrent

\* Find(k, reorder) on each of the caches
CacheFind(k, reorder) ==
  LET f == [s \in Strategies |-> Find(s, caches.entries[s], k, reorder)]
  IN /\ caches.op # ""
     /\ caches' = [ entries |-> [s \in Strategies |-> f[s].entries],
                    op |-> "Find", key |-> k, reorder |-> reorder,
                    results |-> [s \in Strategies |->
                                   [found |-> f[s].found, value |-> f[s].value]] ]
     /\ UNCHANGED <<strategy, library, nameToKeyTrie, scopePool, verificationError,
                    verified, last>>
     /\ UNCHANGED concurrent

CacheNext ==
  \/ \E k \in CacheKeys, v \in CacheValues : CacheAdd(k, v)
  \/ \E k \in FindKeys, reorder \in {NoReorder, Reorder} : CacheFind(k, reorder)

CacheSpec == CacheInit /\ [][CacheNext]_vars

\* ------------------------------------------------------ the dependency graph
\* the parameter types of the constructor registered for key k
ParametersOf(entries, k) ==
  LET in == InfoOf(entries, k).ConstructorType.in
  IN {in[i] : i \in 1..Len(in)}

\* the types reached from the types in frontier through registered
\* constructors' parameters
RECURSIVE Closure(_, _)
Closure(entries, reached) ==
  LET more == reached \cup
                UNION {ParametersOf(entries, k) : k \in reached \cap Keys(entries)}
  IN IF more = reached THEN reached ELSE Closure(entries, more)

\* the transitive constructor-parameter set of key k
DependsOn(entries, k) == Closure(entries, ParametersOf(entries, k))

FullyRegistered(entries) ==
  \A k \in Keys(entries) : DependsOn(entries, k) \subseteq Keys(entries)

HasLoop(entries) == \E k \in Keys(entries) : k \in DependsOn(entries, k)

Sound(entries) == FullyRegistered(entries) /\ ~HasLoop(entries)

\* -------------------------------------------------------------------- claims
\* C1: a Get on an injector that is not verified returns an error wrapping
\* ErrorBadState and a nil value for every key, invokes no constructor,
\* builds no invoker and checks no scope-stack out of the pool.
C1_UnverifiedGetIsBadState ==
  [][ (last'.op = "Get" /\ ~verified) =>
        /\ Wraps(last'.err, "BadState")
        /\ last'.value = Nil
        /\ last'.invoked = <<>>
        /\ last'.built = <<>>
        /\ last'.checkOuts = 0
        /\ scopePool' = scopePool
        /\ library' = library ]_vars

\* a Get of a registered key was refused before any Verify
C1_Witness ==
  /\ last.op = "Get"
  /\ last.key \in Keys(library)
  /\ last.err = Err("BadState", "", 0, <<>>)
  /\ last.checkOuts = 0

\* C3: whenever verified is true, every registered record's transitive
\* constructor-parameter set is fully registered and contains no cycle.
C3_VerifiedImpliesSound == verified => Sound(library)

\* a verified registry holding a constructor with a parameter, after a
\* resolution has run on it
C3_Witness ==
  /\ verified
  /\ "Car" \in Keys(library)
  /\ last.op \in {"Get"} \cup CallOps
  /\ last.invoked # <<>>

\* the registrations the records were created by
Registrations(entries) ==
  {Req(entries[i].key, entries[i].value.ConstructorValue, entries[i].value.Lifecycle,
       entries[i].value.ConstructorReturnsError) : i \in 1..Len(entries)}

Unique(entries) ==
  \A i, j \in 1..Len(entries) : i # j => entries[i].key # entries[j].key

\* a request whose key is registerable and whose constructor is a
\* non-variadic function of the return shape the variant expects, with a
\* first output assignable to the key
ValidShape(req) ==
  LET t == Constructors[req.ctor]
  IN /\ Kind(req.key) = "Interface" \/ (Kind(req.key) = "Pointer" /\ ElemKind(req.key) = "Struct")
     /\ t.kind = "Func"
     /\ ~t.variadic
     /\ Len(t.out) = (IF req.returnsError THEN 2 ELSE 1)
     /\ AssignableTo(t.out[1], req.key)

\* C2 (as claimed): a Call-family call on an injector that is not verified
\* invokes neither the function nor any constructor and, when the function
\* passes the signature checks, fails with BadState as Get would.
C2_UnverifiedCallIsBadState ==
  [][ (last'.op \in CallOps /\ ~verified) =>
        /\ ~last'.fnInvoked
        /\ last'.invoked = <<>>
        /\ (Functions[last'.key].kind = "Func" /\ ~last'.panicked
              /\ callChecks(Functions[last'.key],
                            expectedReturnCount(last'.op, last'.key)) = NoError)
             => Wraps(last'.err, "BadState") ]_vars

\* C4: Verify returns nil, sets verified and clears the stored error exactly
\* when every parameter type of every registered constructor is registered
\* and the key-level dependency graph has no cycle; otherwise it returns a
\* NotRegistered or DependencyLoop error, stores it and leaves verified false.
\* Violated by a Verify that never returns: PriorityList.All holds the mutex
\* that the Find inside the loop body needs.
C4_VerifyDecidesSoundness ==
  [][ last'.op = "Verify" =>
        /\ (last'.err = NoError) <=> Sound(library)
        /\ verified' = (last'.err = NoError)
        /\ verificationError' = last'.err
        /\ last'.err # NoError =>
             last'.err.kind \in {"NotRegistered", "DependencyLoop"} ]_vars

\* C5 (as claimed): Verify on a registry with a direct or transitive
\* self-reference always fails with DependencyLoop, whatever else is
\* registered.
C5_LoopAlwaysDependencyLoop ==
  [][ (last'.op = "Verify" /\ HasLoop(library)) =>
        Wraps(last'.err, "DependencyLoop") ]_vars

\* C5 (amended): Verify on a registry with a direct or transitive
\* self-reference never succeeds and leaves the injector unverified; the
\* error it returns is DependencyLoop when every parameter type is
\* registered, and otherwise DependencyLoop or NotRegistered, whichever the
\* traversal meets first.
C5_LoopFailsVerify ==
  [][ (last'.op = "Verify" /\ HasLoop(library)) =>
        /\ last'.err # NoError
        /\ ~verified'
        /\ Alive' =>
             /\ \/ Wraps(last'.err, "DependencyLoop")
                \/ Wraps(last'.err, "NotRegistered")
             /\ FullyRegistered(library) => Wraps(last'.err, "DependencyLoop") ]_vars

\* Verify reported the loop Car -> Driver -> Car
C5_Witness ==
  /\ last.op = "Verify"
  /\ {"Car", "Driver"} \subseteq Keys(library)
  /\ "Car" \in DependsOn(library, "Car")
  /\ "Car" \in ParametersOf(library, "Driver")
  /\ Wraps(last.err, "DependencyLoop")
  /\ ~verified

\* C6 (as claimed): Verify on a registry in which some constructor has an
\* unregistered parameter type always fails with NotRegistered, and the error
\* identifies a missing type.
C6_MissingAlwaysNotRegistered ==
  [][ (last'.op = "Verify" /\ ~FullyRegistered(library)) =>
        /\ Wraps(last'.err, "NotRegistered")
        /\ last'.err.name \in
             UNION {ParametersOf(library, k) : k \in Keys(library)} \ Keys(library) ]_vars

\* C7 (as claimed): the error E a failed Verify stored is what every Get
\* re-surfaces, wrapped under BadState, until a Verify succeeds.
C7_ErrorKeptUntilSuccess ==
  [][ (verificationError # NoError
         /\ ~(last'.op = "Verify" /\ last'.err = NoError)) =>
        /\ verificationError' = verificationError
        /\ last'.op = "Get" =>
             last'.err = Err("BadState", "", 0, <<verificationError>>) ]_vars

\* C7 (amended): the error E a failed Verify stored is what every Get
\* re-surfaces, wrapped under BadState, until the next Verify; a later Verify
\* that fails replaces E by its own error, one that succeeds clears it, and
\* while the injector stays verified Get does not fail with BadState.
C7_ErrorKeptUntilNextVerify ==
  [][ /\ (last'.op = "Verify" /\ Alive') =>
           /\ verificationError' = last'.err
           /\ verified' = (last'.err = NoError)
      /\ last'.op # "Verify" => verificationError' = verificationError
      /\ (last'.op = "Get" /\ ~verified /\ verificationError # NoError) =>
           last'.err = Err("BadState", "", 0, <<verificationError>>)
      /\ (last'.op = "Get" /\ verified) =>
           /\ verificationError = NoError
           /\ ~Wraps(last'.err, "BadState") ]_vars

\* a Get re-surfaced the DependencyLoop a failed Verify stored
C7_Witness ==
  /\ last.op = "Get"
  /\ last.err.kind = "BadState"
  /\ last.err.wraps = <<verificationError>>
  /\ Wraps(last.err, "DependencyLoop")

\* C8: a successful registration leaves the injector unverified, also after
\* a successful Verify; an unverified injector stays unverified until a
\* Verify succeeds, and until then every Get fails with BadState.
C8_RegistrationInvalidates ==
  [][ /\ (last'.op = "Register" /\ last'.err = NoError) => ~verified'
      /\ (~verified /\ ~(last'.op = "Verify" /\ last'.err = NoError)) => ~verified'
      /\ (last'.op = "Get" /\ ~verified) =>
           /\ Wraps(last'.err, "BadState")
           /\ last'.value = Nil ]_vars

\* a registration succeeded on a verified injector
C8_Witness ==
  /\ last.op = "Register"
  /\ last.err = NoError
  /\ last.verifiedBefore
  /\ ~verified

\* C9 (as claimed): every registration attempt for a registered key fails
\* with AlreadyRegistered, whatever the constructor passed.
C9_AlwaysAlreadyRegistered ==
  [][ LET req == last'.request
      IN (last'.op = "Register" /\ req.key \in Keys(library)) =>
          Wraps(last'.err, "AlreadyRegistered") ]_vars

\* C9 (amended): every registration attempt for a registered key fails and
\* changes no record; it fails with AlreadyRegistered when the constructor
\* passes the shape checks, whatever the lifecycle, and with the error of the
\* first failing shape check otherwise.
C9_RegisteredKeyRefused ==
  [][ LET req == last'.request
      IN (last'.op = "Register" /\ req.key \in Keys(library)) =>
          /\ last'.err # NoError
          /\ Len(library') = Len(library)
          /\ Registrations(library') = Registrations(library)
          /\ ValidShape(req) <=> Wraps(last'.err, "AlreadyRegistered")
          /\ ~ValidShape(req) =>
               last'.err.kind \in {"NotAFunction", "WrongNumberOfReturns",
                                   "TooManyReturns", "NoReturns", "NotAssignable",
                                   "VariadicArguments"} ]_vars

\* a non-function was offered for the registered key Car
C9_Witness ==
  /\ last.op = "Register"
  /\ last.key = "Car"
  /\ "Car" \in Keys(library)
  /\ last.err.kind = "NotAFunction"

\* C10: every key appears at most once in the registry; a registration with
\* a valid constructor succeeds exactly when the key is not yet registered,
\* and no attempt replaces or removes a stored record.
C10_KeysUniqueRecordsKept ==
  [][ /\ Unique(library')
      /\ Registrations(library) \subseteq Registrations(library')
      /\ LET req == last'.request
         IN (last'.op = "Register" /\ ValidShape(req)) =>
             /\ (last'.err = NoError) <=> (req.key \notin Keys(library))
             /\ req.key \in Keys(library')
             /\ last'.err # NoError => Wraps(last'.err, "AlreadyRegistered") ]_vars

\* a valid registration was refused for a key of a full registry
C10_Witness ==
  /\ last.op = "Register"
  /\ last.key # "Injector"
  /\ Wraps(last.err, "AlreadyRegistered")
  /\ Len(library) = MaxKeys + 1
  /\ Unique(library)

\* a registerable key: a struct, an interface or a pointer to one
Registerable(key) ==
  \/ Kind(key) \in {"Struct", "Interface"}
  \/ Kind(key) = "Pointer" /\ ElemKind(key) \in {"Struct", "Interface"}

\* the number of outputs the Register variant of a request expects
ExpectedOutputs(req) == IF req.returnsError THEN 2 ELSE 1

Count(seq, x) == Cardinality({i \in 1..Len(seq) : seq[i] = x})

\* key k is registered under the lifecycle
HasLifecycle(entries, k, lifecycle) ==
  k \in Keys(entries) /\ InfoOf(entries, k).Lifecycle = lifecycle

\* the constructor registered for key k
CtorOf(entries, k) == InfoOf(entries, k).ConstructorValue

\* the objects a call handed out: the value Get returned, the arguments the
\* function of a Call received
Handed(outcome) ==
  {outcome.value} \cup {outcome.fnArgs[i] : i \in 1..Len(outcome.fnArgs)}

\* an operation that resolved and returned normally
Resolved(outcome) ==
  /\ outcome.op \in {"Get"} \cup CallOps
  /\ outcome.err = NoError
  /\ ~outcome.panicked
  /\ outcome.checkOuts = 1

\* C13: on a verified injector every resolution of a Transient key invokes
\* its constructor once and yields an instance no earlier resolution
\* yielded: a Get of the key invokes it once, a function or a constructor
\* that takes the key twice gets two distinct new instances from two
\* invocations, and nothing is kept in the record's Singleton slot.
C13_TransientAlwaysFresh ==
  [][ (verified /\ Resolved(last') /\ HasLifecycle(library, "Driver", Transient)) =>
        LET ctor == CtorOf(library, "Driver")
            before == Referenced(library, last)
            cars == {o \in Handed(last') : o.ctor = "NewTwinCar" /\ o.id \notin before}
        IN /\ InfoOf(library', "Driver").Singleton = Nil
           /\ (last'.op = "Get" /\ last'.key = "Driver") =>
                /\ Count(last'.invoked, ctor) = 1
                /\ last'.value.ctor = ctor
                /\ last'.value.id \notin before
           /\ (last'.op \in CallOps /\ last'.key = "UseDrivers") =>
                /\ Count(last'.invoked, ctor) = 2
                /\ last'.fnArgs[1].id # last'.fnArgs[2].id
                /\ {last'.fnArgs[1].id, last'.fnArgs[2].id} \cap before = {}
           /\ \A car \in cars :
                /\ Count(last'.invoked, ctor) = 2
                /\ car.args[1].id # car.args[2].id
                /\ {car.args[1].id, car.args[2].id} \cap before = {}
           /\ (last'.key \in {"Car", "UseCar"} /\ cars = {}) =>
                Count(last'.invoked, ctor) = 0 ]_vars

\* a later Get of a Transient Car, through the stored invokers, built a new
\* Car from two new Drivers
C13_Witness ==
  /\ verified
  /\ last.op = "Get"
  /\ last.key = "Car"
  /\ last.err = NoError
  /\ HasLifecycle(library, "Driver", Transient)
  /\ HasLifecycle(library, "Car", Transient)
  /\ last.built = <<>>
  /\ last.invoked = <<"NewRegularDriver", "NewRegularDriver", "NewTwinCar">>
  /\ last.value.args[1].id # last.value.args[2].id

\* the Singleton slot of the record of key k
SlotOf(entries, k) == InfoOf(entries, k).Singleton

\* an object and the objects it holds, directly or not
RECURSIVE Parts(_)
Parts(obj) == {obj} \cup UNION {Parts(obj.args[i]) : i \in 1..Len(obj.args)}

\* C14: the instance in a Singleton slot is never replaced or dropped and
\* its constructor is not invoked again; with an empty slot one call invokes
\* a constructor that does not fail at most once and fills the slot; and on
\* a verified injector every resolution of the key, by Get, as an argument
\* of the function of a Call or as a constructor parameter, yields the
\* instance in the slot.
C14_SingletonBuiltOnce ==
  [][ \A k \in Keys(library) \cap {"Car", "Driver"} :
        HasLifecycle(library, k, Singleton) =>
          LET ctor == CtorOf(library, k)
              slot == SlotOf(library', k)
              before == Referenced(library, last)
              cars == {o \in Handed(last') : o.ctor = "NewTwinCar" /\ o.id \notin before}
          IN /\ k \in Keys(library')
             /\ SlotOf(library, k) # Nil =>
                  /\ slot = SlotOf(library, k)
                  /\ Count(last'.invoked, ctor) = 0
             /\ (SlotOf(library, k) = Nil /\ ctor \notin FailingConstructors) =>
                  /\ Count(last'.invoked, ctor) <= 1
                  /\ (Count(last'.invoked, ctor) = 1 /\ Alive')
                       => (slot # Nil /\ slot.ctor = ctor)
                  /\ Count(last'.invoked, ctor) = 0 => slot = Nil
             /\ (verified /\ Resolved(last')) =>
                  /\ (last'.op = "Get" /\ last'.key = k) => last'.value = slot
                  /\ (last'.key = "UseCar" /\ k = "Car") => last'.fnArgs[1] = slot
                  /\ (last'.key = "UseDrivers" /\ k = "Driver") =>
                       (last'.fnArgs[1] = slot /\ last'.fnArgs[2] = slot)
                  /\ k = "Driver" =>
                       \A car \in cars : car.args[1] = slot /\ car.args[2] = slot ]_vars

\* a later Get returned the Singleton Driver an earlier call had built
C14_Witness ==
  /\ verified
  /\ last.op = "Get"
  /\ last.key = "Driver"
  /\ last.err = NoError
  /\ HasLifecycle(library, "Driver", Singleton)
  /\ CtorOf(library, "Driver") = "NewRegularDriver"
  /\ last.invoked = <<>>
  /\ last.value = SlotOf(library, "Driver")
  /\ last.value # Nil

\* C15: on a verified injector, within one call every resolution of a
\* Scope key yields one instance and its constructor is invoked once; the
\* instance is one no earlier call yielded, and the scope-stack goes back
\* to the pool empty, so that the next call invokes the constructor again.
C15_ScopedOncePerCall ==
  [][ (verified /\ Resolved(last') /\ HasLifecycle(library, "Driver", Scope)) =>
        LET ctor == CtorOf(library, "Driver")
            before == Referenced(library, last)
            cars == {o \in Handed(last') : o.ctor = "NewTwinCar" /\ o.id \notin before}
        IN /\ \A i \in 1..Len(scopePool') : scopePool'[i] = <<>>
           /\ (last'.op = "Get" /\ last'.key = "Driver") =>
                /\ Count(last'.invoked, ctor) = 1
                /\ last'.value.ctor = ctor
                /\ last'.value.id \notin before
           /\ (last'.op \in CallOps /\ last'.key = "UseDrivers") =>
                /\ Count(last'.invoked, ctor) = 1
                /\ last'.fnArgs[1] = last'.fnArgs[2]
                /\ last'.fnArgs[1].id \notin before
           /\ \A car \in cars :
                /\ Count(last'.invoked, ctor) = 1
                /\ car.args[1] = car.args[2]
                /\ car.args[1].id \notin before ]_vars

\* a Get of a Scope Driver right after a Get of it returned another Driver
\* than the one still held from the earlier Get; and a Car was built from
\* one Driver taken twice
C15_Witness ==
  /\ verified
  /\ HasLifecycle(library, "Driver", Scope)
  /\ HasLifecycle(library, "Car", Transient)
  /\ last.op = "Get"
  /\ last.key = "Car"
  /\ last.err = NoError
  /\ last.built = <<>>
  /\ Count(last.invoked, CtorOf(library, "Driver")) = 1
  /\ last.value.args[1] = last.value.args[2]

\* C16 (as claimed): whatever lifecycles a verified registry mixes, an
\* instance of a Scope type in the object graph a call returns or passes to
\* its function was created during that call.
C16_ScopedNeverShared ==
  [][ (verified /\ Resolved(last')) =>
        \A k \in Keys(library) :
          HasLifecycle(library, k, Scope) =>
            \A root \in Handed(last') : \A o \in Parts(root) :
              o.ctor = CtorOf(library, k) => o.id \notin Referenced(library, last) ]_vars

\* C19: when a constructor registered with an -Error variant returns a
\* non-nil error to a Get on a verified injector, Get returns that error and
\* a nil value, no Singleton slot changes and the scope-stack goes back to
\* the pool empty; and a Get of a key whose slot is empty and that is not on
\* a scope-stack always invokes the constructor, after a failure as before
\* it; for every lifecycle and for the first and the later resolutions.
C19_ConstructorErrorKeepsNothing ==
  [][ (last'.op = "Get" /\ verified /\ last'.checkOuts = 1) =>
        /\ (\E c \in FailingConstructors : Count(last'.invoked, c) > 0
              /\ Get(last'.key, FailingConstructors)) =>
             /\ \E c \in FailingConstructors :
                  last'.err = ErrorOf("ConstructorError", c)
             /\ last'.value = Nil
             /\ \A k \in Keys(library) : SlotOf(library', k) = SlotOf(library, k)
             /\ \A i \in 1..Len(scopePool') : scopePool'[i] = <<>>
        /\ (last'.key \in Keys(library)
              /\ CtorOf(library, last'.key) \in FailingConstructors
              /\ SlotOf(library, last'.key) = Nil) =>
             Count(last'.invoked, CtorOf(library, last'.key)) = 1
        /\ Wraps(last'.err, "ConstructorError") =>
             \E c \in FailingConstructors : Count(last'.invoked, c) > 0 ]_vars

\* a failing constructor was invoked through the invoker an earlier Get had
\* stored, and its Singleton slot stayed empty
C19_Witness ==
  /\ verified
  /\ last.op = "Get"
  /\ last.key = "Driver"
  /\ last.err = ErrorOf("ConstructorError", "NewDriverOrError")
  /\ last.value = Nil
  /\ last.built = <<>>
  /\ last.invoked = <<"NewDriverOrError">>
  /\ SlotOf(library, "Driver") = Nil

\* C20 (as claimed): a Call-family call on a verified injector with a
\* parameter of an unregistered type returns the NotRegistered error of the
\* resolution, and one with a parameter whose constructor returned an error
\* returns that error; in both cases without invoking the function.
C20_FailedParameterReturnsError ==
  [][ (last'.op \in CallOps /\ verified /\ last'.checkOuts = 1) =>
        LET in == Functions[last'.key].in
        IN /\ (\E i \in 1..Len(in) : in[i] \notin Keys(library)) =>
                /\ ~last'.panicked
                /\ Wraps(last'.err, "NotRegistered")
                /\ ~last'.fnInvoked
           /\ (\E c \in FailingConstructors : Count(last'.invoked, c) > 0
                 /\ Call(last'.op, last'.key, FailingConstructors)) =>
                /\ ~last'.panicked
                /\ Wraps(last'.err, "ConstructorError")
                /\ ~last'.fnInvoked ]_vars

\* a get activation for key k is past its Find in some goroutine
InFlight(k) ==
  \E t \in Threads : \E i \in 1..Len(threads[t].stack) :
    threads[t].stack[i].key = k /\ threads[t].stack[i].pc # "find"

\* C17 (as claimed): while goroutines call Get concurrently for Transient
\* and Scope keys on a verified injector, every constructor invocation made
\* for a call receives only instances that were resolved within that call.
C17_ArgumentsFromOwnCall ==
  (\A k \in ConcKeys : ~HasLifecycle(library, k, Singleton)) =>
    \A t \in Threads : \A b \in threads[t].received :
      \A i \in 1..Len(b.args) : b.args[i] \in threads[t].resolved

\* C18: every write of info.Singleton lands, whatever the slot holds, so the
\* slot holds the instance of the write that landed last; the slot changes
\* by nothing else; a get that finds the slot filled yields the instance in
\* it without invoking the constructor; and once the slot is filled and no
\* resolution of the key is in flight, it stays as it is.
C18_SingletonLastWriteWins ==
  [][ \A k \in ConcKeys :
        HasLifecycle(library, k, Singleton) =>
          LET slot == SlotOf(library, k)
              writers == {t \in Threads :
                            /\ threads'[t] # threads[t]
                            /\ threads[t].stack # <<>>
                            /\ Top(threads[t]).pc = "settle"
                            /\ Top(threads[t]).key = k}
              readers == {t \in Threads :
                            /\ threads'[t] # threads[t]
                            /\ threads[t].stack # <<>>
                            /\ Top(threads[t]).pc = "find"
                            /\ Top(threads[t]).key = k}
          IN /\ \A t \in writers : SlotOf(library', k) = Top(threads[t]).obj
             /\ SlotOf(library', k) # slot => writers # {}
             /\ slot # Nil =>
                  \A t \in readers :
                    /\ threads'[t].received = threads[t].received
                    /\ IF Len(threads[t].stack) = 1
                       THEN threads'[t].stack = <<>> /\ threads'[t].value = slot
                       ELSE slot \in threads'[t].resolved
             /\ (slot # Nil /\ ~InFlight(k)) =>
                  (SlotOf(library', k) = slot /\ ~InFlight(k)') ]_vars

\* both goroutines invoked the constructor of the Singleton Driver and wrote
\* the slot; each returned its own instance and the slot holds the second
\* goroutine's
C18_Witness ==
  /\ HasLifecycle(library, "Driver", Singleton)
  /\ \A t \in Threads :
       /\ threads[t].stack = <<>>
       /\ threads[t].calls = 1
       /\ "Driver" \in threads[t].wrote
       /\ threads[t].value.ctor = "NewRegularDriver"
       /\ \E b \in threads[t].received : b.ctor = "NewRegularDriver"
  /\ threads[1].value # threads[2].value
  /\ SlotOf(library, "Driver") = threads[2].value

\* the call that just ended returned an error of the kind and touched
\* nothing else: no panic, no scope-stack checked out, nothing invoked
Rejected(kind) ==
  /\ ~last'.panicked
  /\ Wraps(last'.err, kind)
  /\ last'.checkOuts = 0
  /\ ~last'.fnInvoked
  /\ last'.invoked = <<>>

\* C21 (as claimed): every entry point of the Call family returns
\* NotAFunction for a value that is not a function, WrongNumberOfReturns
\* for a function whose output count is not the one of the entry point, and
\* VariadicArguments for a variadic function, and invokes nothing.
C21_CallRejectsBadSignature ==
  [][ last'.op \in CallOps =>
        LET f == Functions[last'.key]
            count == expectedReturnCount(last'.op, last'.key)
        IN /\ f.kind # "Func" => Rejected("NotAFunction")
           /\ (f.kind = "Func" /\ Len(f.out) # count)
                => Rejected("WrongNumberOfReturns")
           /\ (f.kind = "Func" /\ Len(f.out) = count /\ f.variadic)
                => Rejected("VariadicArguments") ]_vars

InUse == Cardinality({t \in Threads : threads[t].stack # <<>>})

\* C23: a goroutine that enters Get or Call takes one buffer from the pool
\* (a new one when the free-list is empty), and when its call ends, with a
\* value, an error or the panic of callN, puts exactly that buffer back,
\* empty as it was; no other step touches the free-list. So the buffers on
\* the free-list and in use are always as many as the most calls that were
\* ever in progress at once.
C23_BufferCheckedInOnce ==
  [][ LET starts == {t \in Threads :
                       threads[t].stack = <<>> /\ threads'[t].stack # <<>>}
          ends == {t \in Threads :
                     threads[t].stack # <<>> /\ threads'[t].stack = <<>>}
          buffers == Len(scopePool) + InUse
      IN /\ \A t \in starts :
              IF scopePool = <<>>
              THEN scopePool' = <<>> /\ threads'[t].out = <<>>
              ELSE /\ scopePool' = SubSeq(scopePool, 1, Len(scopePool) - 1)
                   /\ threads'[t].out = scopePool[Len(scopePool)]
         /\ \A t \in ends : scopePool' = Append(scopePool, threads[t].out)
         /\ (starts = {} /\ ends = {}) => scopePool' = scopePool
         /\ \A i \in 1..Len(scopePool') : scopePool'[i] = <<>>
         /\ Len(scopePool') + InUse' = (IF InUse' > buffers THEN InUse' ELSE buffers)
    ]_vars

\* two calls overlapped, one a Get that returned a Scope Driver, the other
\* one that failed because Car is not registered; both have ended and the
\* free-list holds the two buffers, empty
C23_Witness ==
  /\ \A t \in Threads : threads[t].stack = <<>> /\ threads[t].calls = 1
  /\ threads[1].err = NoError
  /\ threads[1].value.ctor = "NewRegularDriver"
  /\ threads[2].err # NoError
  /\ scopePool = <<(<<>>), (<<>>)>>

\* C25: under each of the three strategies Verify on a finite registry
\* returns to its caller: the iteration through All with the Find lookups of
\* the loop body never blocks.
C25_VerifyReturns ==
  [][ last'.op = "Verify" => last'.err.kind # "Deadlock" ]_vars

\* C26: the injector New returns holds its own type as a Singleton record:
\* registering that type again fails with AlreadyRegistered, Verify on the
\* registry that holds nothing else succeeds, and Get of that type on the
\* verified injector returns the injector itself.
C26_NewRegistersSelf ==
  [][ /\ HasLifecycle(library, "Injector", Singleton)
      /\ CtorOf(library, "Injector") = "Self"
      /\ (last'.op = "Register" /\ last'.request.key = "Injector") =>
           /\ Wraps(last'.err, "AlreadyRegistered")
           /\ library' = library
      /\ (last'.op = "Verify" /\ Len(library) = 1) =>
           /\ last'.err = NoError
           /\ verified'
      /\ (last'.op = "Get" /\ last'.key = "Injector" /\ verified) =>
           /\ last'.err = NoError
           /\ last'.value.ctor = "Self"
           /\ last'.value.args = <<>> ]_vars

\* C24: after any Add calls, every Find, with either reorder option, returns
\* the same (value, found) pair from the Map, the BubbleList and the
\* PriorityList.
C24_StrategiesAgree ==
  [][ caches'.op = "Find" =>
        \A s, t \in Strategies : caches'.results[s] = caches'.results[t] ]_vars

\* C30: a BubbleList Find with reorder that matches the entry at index i
\* adds one to that entry's stored access counter and, when the entry is
\* not the first and its counter now exceeds its left neighbour's, swaps the
\* two, so that the entry then sits one place nearer the front.
C30_BubbleCountsAndSwaps ==
  [][ LET before == caches.entries["BubbleList"]
          after == caches'.entries["BubbleList"]
          i == IndexOf(before, caches'.key)
          counter == before[i].accesses + 1
          swaps == i > 1 /\ counter > before[i - 1].accesses
          j == IF swaps THEN i - 1 ELSE i
      IN (caches'.op = "Find" /\ caches'.reorder /\ i # 0) =>
           /\ Len(after) = Len(before)
           /\ after[j] = [before[i] EXCEPT !.accesses = counter]
           /\ swaps => after[i] = before[i - 1]
           /\ \A n \in 1..Len(before) : n \notin {i, j} => after[n] = before[n]
    ]_vars

\* the outcome of Get(key) from the current state when the constructors in
\* fail return an error
AsGet(key, fail) ==
  LET b == Borrowed(CheckOut(scopePool))
      r == get(strategy, b.st, key, fail, {})
  IN IF r.st.overflow
     THEN last'.err.kind = "StackOverflow"
     ELSE /\ library' = r.st.entries
          /\ scopePool' = CheckIn(b.out.stacks, b.out.value)
          /\ last'.err = r.err
          /\ last'.value = (IF r.err # NoError THEN Nil ELSE r.value)
          /\ last'.invoked = r.st.invoked
          /\ last'.built = r.st.built

Slots(entries) == {<<entries[i].key, entries[i].value.Singleton>> : i \in 1..Len(entries)}

\* C28: on a verified injector Get of a key that is not registered fails
\* with NotRegistered and a nil value, invokes no constructor and leaves
\* every Singleton slot as it was.
C28_UnregisteredGet ==
  [][ (last'.op = "Get" /\ verified /\ last'.key \notin Keys(library)) =>
        /\ Wraps(last'.err, "NotRegistered")
        /\ last'.value = Nil
        /\ last'.invoked = <<>>
        /\ last'.built = <<>>
        /\ Slots(library') = Slots(library)
        /\ Keys(library') = Keys(library) ]_vars

\* Get of Car was refused on a verified injector that holds no Car and
\* whose own Singleton slot is filled
C28_Witness ==
  /\ last.op = "Get"
  /\ last.key = "Car"
  /\ verified
  /\ "Car" \notin Keys(library)
  /\ Wraps(last.err, "NotRegistered")
  /\ InfoOf(library, "Injector").Singleton # Nil

\* an object without the identities: its constructor and its arguments
RECURSIVE Shape(_)
Shape(obj) ==
  [ctor |-> obj.ctor, args |-> [i \in 1..Len(obj.args) |-> Shape(obj.args[i])]]

\* the object the declared parameter chain of key k describes
RECURSIVE Declared(_, _)
Declared(entries, k) ==
  LET in == InfoOf(entries, k).ConstructorType.in
  IN [ctor |-> CtorOf(entries, k),
      args |-> [i \in 1..Len(in) |-> Declared(entries, in[i])]]

\* the paths from key k to key target along declared parameters
RECURSIVE Paths(_, _, _)
RECURSIVE PathsFrom(_, _, _, _)
PathsFrom(entries, in, i, target) ==
  IF i > Len(in)
  THEN 0
  ELSE Paths(entries, in[i], target) + PathsFrom(entries, in, i + 1, target)

Paths(entries, k, target) ==
  IF k = target
  THEN 1
  ELSE PathsFrom(entries, InfoOf(entries, k).ConstructorType.in, 1, target)

\* key k and every key its constructor reaches is a Transient record whose
\* constructor returns no error
TransientGraph(entries, k) ==
  \A d \in {k} \cup DependsOn(entries, k) :
    /\ HasLifecycle(entries, d, Transient)
    /\ ~InfoOf(entries, d).ConstructorReturnsError

\* C29: on a verified registry of Transient records with constructors that
\* do not fail, Get(K) returns the object graph the declared parameter
\* chain of K describes: every constructor is invoked once for every path
\* from K to its key, each invocation yields an object of its own, and every
\* constructor receives its arguments in declared parameter order.
C29_GraphMirrorsParameters ==
  [][ (last'.op = "Get" /\ verified /\ last'.key \in Keys(library)
         /\ TransientGraph(library, last'.key)) =>
        /\ last'.err = NoError
        /\ Shape(last'.value) = Declared(library, last'.key)
        /\ \A k \in Keys(library) :
             Count(last'.invoked, CtorOf(library, k)) =
               (IF k \in {last'.key} \cup DependsOn(library, last'.key)
                THEN Paths(library, last'.key, k)
                ELSE 0)
        /\ Cardinality(Identities(last'.value)) = Len(last'.invoked) ]_vars

\* Get of Car returned a Car made from a *RegularDriver, itself made from a
\* Driver, and a second Driver, in that order
C29_Witness ==
  /\ last.op = "Get"
  /\ last.key = "Car"
  /\ last.err = NoError
  /\ last.invoked = <<"NewRegularDriver", "WrapDriver", "NewRegularDriver", "NewTandemCar">>
  /\ Len(last.value.args) = 2
  /\ last.value.args[1].ctor = "WrapDriver"
  /\ last.value.args[2].ctor = "NewRegularDriver"
  /\ last.built = <<>>

\* C31: in the PriorityList a Find with reorder that matches key k leaves
\* the node of k at the head and the other nodes in the order they had; a
\* matching Find on the head and a Find that does not match change nothing.
C31_PriorityMovesToHead ==
  [][ LET before == caches.entries["PriorityList"]
          after == caches'.entries["PriorityList"]
          i == IndexOf(before, caches'.key)
      IN (caches'.op = "Find" /\ caches'.reorder) =>
           IF i > 1
           THEN /\ after[1] = before[i]
                /\ SubSeq(after, 2, Len(after)) =
                     SubSeq(before, 1, i - 1) \o SubSeq(before, i + 1, Len(before))
           ELSE after = before ]_vars

\* Find(Driver, Reorder) moved the node of Driver, added first of three
\* keys and so last in the list, to the head, in front of the other two
C31_Witness ==
  /\ caches.op = "Find"
  /\ caches.reorder
  /\ caches.key = "Driver"
  /\ Len(caches.entries["BubbleList"]) = 3
  /\ Len(caches.entries["PriorityList"]) = 3
  /\ [i \in 1..3 |-> caches.entries["BubbleList"][i].key] = <<"Driver", "Car", "Injector">>
  /\ [i \in 1..3 |-> caches.entries["PriorityList"][i].key] = <<"Driver", "Injector", "Car">>

\* the stored (key, value) pairs of a list, each with the number of entries
\* that hold it
Pairs(entries) ==
  [p \in {<<entries[i].key, entries[i].value>> : i \in 1..Len(entries)} |->
     Cardinality({i \in 1..Len(entries) : <<entries[i].key, entries[i].value>> = p})]

\* what Find(k, NoReorder) answers on the entries
Answer(strat, entries, k) ==
  [found |-> Find(strat, entries, k, NoReorder).found,
   value |-> Find(strat, entries, k, NoReorder).value]

\* C32: in the BubbleList and the PriorityList a Find, with or without
\* reorder, keeps the stored (key, value) pairs, each as often as it was
\* stored, and so the answer of every other Find for every key; a Find
\* without reorder keeps the order as well. The Finds of one list exclude
\* each other by its mutex, so concurrent Finds are Finds in some order.
C32_FindKeepsEntries ==
  [][ caches'.op = "Find" =>
        \A s \in {"BubbleList", "PriorityList"} :
          /\ Pairs(caches'.entries[s]) = Pairs(caches.entries[s])
          /\ Len(caches'.entries[s]) = Len(caches.entries[s])
          /\ \A k \in FindKeys :
               Answer(s, caches'.entries[s], k) = Answer(s, caches.entries[s], k)
          /\ ~caches'.reorder => caches'.entries[s] = caches.entries[s] ]_vars

\* a Find with reorder moved the newer of two nodes of Car, behind the
\* node of Driver, to the head of the PriorityList
C32_Witness ==
  /\ caches.op = "Find"
  /\ caches.reorder
  /\ caches.key = "Car"
  /\ Len(caches.entries["PriorityList"]) = 3
  /\ [i \in 1..3 |-> caches.entries["BubbleList"][i].key] = <<"Car", "Car", "Driver">>
  /\ [i \in 1..3 |-> caches.entries["PriorityList"][i].key] = <<"Car", "Driver", "Car">>
  /\ caches.entries["PriorityList"][1].value # caches.entries["PriorityList"][3].value
  /\ caches.entries["PriorityList"][1].value = caches.entries["BubbleList"][2].value

\* C33: Verify returns DependencyLoop only for a registry whose key-level
\* dependency graph has a cycle, also when distinct keys are registered with
\* constructors of one signature.
C33_LoopOnlyForCycle ==
  [][ (last'.op = "Verify" /\ Wraps(last'.err, "DependencyLoop")) =>
        HasLoop(library) ]_vars

\* Verify accepted a Car whose two parameter types, Driver and
\* *RegularDriver, are registered with one constructor
C33_Witness ==
  /\ last.op = "Verify"
  /\ last.err = NoError
  /\ verified
  /\ {"Car", "Driver", "PRegularDriver"} \subseteq Keys(library)
  /\ CtorOf(library, "Car") = "NewTandemCar"
  /\ CtorOf(library, "Driver") = "MakeRegularDriver"
  /\ CtorOf(library, "PRegularDriver") = "MakeRegularDriver"
  /\ InfoOf(library, "Driver").ConstructorType =
       InfoOf(library, "PRegularDriver").ConstructorType

\* C34: a registration that returns an error leaves the injector as it was:
\* the registry and the short names are unchanged, and the verified flag and
\* the stored verification error keep their values.
C34_FailedRegisterChangesNothing ==
  [][ (last'.op = "Register" /\ last'.err # NoError) =>
        /\ library' = library
        /\ nameToKeyTrie' = nameToKeyTrie
        /\ verified' = verified
        /\ verificationError' = verificationError ]_vars

\* C35: every scope-stack on the free-list of the pool has length zero, and
\* the scope-stack a call in progress received from CheckOut was empty.
C35_PooledBuffersEmpty ==
  /\ \A i \in 1..Len(scopePool) : Len(scopePool[i]) = 0
  /\ \A t \in Threads : threads[t].stack # <<>> => Len(threads[t].out) = 0

\* a Get that appended a Scope Driver to its scope-stack has ended, and the
\* other goroutine, in its second call, has appended a Scope Driver to the
\* scope-stack it took from the free-list, which holds a buffer again
C35_Witness ==
  /\ threads[1].stack = <<>>
  /\ threads[1].calls >= 1
  /\ threads[1].err = NoError
  /\ threads[1].value # Nil
  /\ threads[1].value.ctor = "NewRegularDriver"
  /\ threads[2].stack # <<>>
  /\ threads[2].calls = 1
  /\ Len(threads[2].scoped) > 0
  /\ backing.held[2] \in 1..backing.made
  /\ scopePool # <<>>

\* C36: while goroutines run Get and Call concurrently, no backing array is
\* held by two calls in progress, none is at once on the free-list and held
\* by a call, none is on the free-list twice, and exactly the calls in
\* progress hold one.
C36_BufferHasOneHolder ==
  LET holders == {t \in Threads : backing.held[t] # 0}
      free == backing.free
  IN /\ \A t, u \in holders : t # u => backing.held[t] # backing.held[u]
     /\ \A i \in 1..Len(free) : \A t \in holders : free[i] # backing.held[t]
     /\ \A i, j \in 1..Len(free) : i # j => free[i] # free[j]
     /\ holders = {t \in Threads : threads[t].stack # <<>>}
     /\ Len(free) = Len(scopePool)

\* both goroutines are in their second call, each with the array the other
\* one used in its first call
C36_Witness ==
  /\ \A t \in Threads : threads[t].stack # <<>> /\ threads[t].calls = 1
  /\ backing.held[1] = 2
  /\ backing.held[2] = 1
  /\ backing.free = <<>>

\* C37: Verify changes nothing but the verified flag and the stored error:
\* it invokes no constructor and builds no closure, the registry holds the
\* same records in the same order with the same Singleton slots, closures
\* and access counters, the short names and the pool are as before, and no
\* lookup Verify makes (a Find without reorder) changes the entries.
C37_VerifyOnlySetsFlagAndError ==
  [][ last'.op = "Verify" =>
        /\ library' = library
        /\ nameToKeyTrie' = nameToKeyTrie
        /\ scopePool' = scopePool
        /\ last'.invoked = <<>>
        /\ last'.built = <<>>
        /\ \A k \in Types :
             Find(strategy, library, k, NoReorder).entries = library ]_vars

\* Verify succeeded on a registry of three records, one of them with its
\* Singleton slot filled by an earlier Get
C37_Witness ==
  /\ last.op = "Verify"
  /\ last.err = NoError
  /\ verified
  /\ Len(library) = 3
  /\ \E i \in 1..Len(library) :
       /\ library[i].key # "Injector"
       /\ library[i].value.Singleton # Nil

\* how deep an object nests the objects it was constructed from
RECURSIVE Nesting(_)
Nesting(obj) ==
  LET below == {Nesting(obj.args[i]) : i \in 1..Len(obj.args)}
  IN 1 + (IF below = {} THEN 0 ELSE CHOOSE d \in below : \A e \in below : e <= d)

\* C38: on a verified injector a Get of a registered key returns: it never
\* re-enters a key it is resolving, it fails with neither NotRegistered nor
\* BadState, an error it returns is the one a registered constructor
\* returned in this call, and the value it returns nests no deeper than the
\* number of registered keys.
C38_VerifiedGetReturns ==
  [][ (last'.op = "Get" /\ last'.verifiedBefore /\ last'.key \in Keys(library)) =>
        /\ Alive'
        /\ last'.err.kind \in {"nil", "ConstructorError"}
        /\ last'.err.kind = "ConstructorError" =>
             /\ last'.invoked # <<>>
             /\ last'.err.name = last'.invoked[Len(last'.invoked)]
             /\ \E k \in Keys(library) : CtorOf(library, k) = last'.err.name
        /\ last'.err = NoError =>
             /\ last'.value # Nil
             /\ Nesting(last'.value) <= Cardinality(Keys(library)) ]_vars

\* Get of a Car on a verified injector returned the error the constructor
\* of its Driver returned
C38_Witness ==
  /\ last.op = "Get"
  /\ last.verifiedBefore
  /\ last.key = "Car"
  /\ last.err = ErrorOf("ConstructorError", "NewDriverOrError")
  /\ last.invoked = <<"NewDriverOrError">>
  /\ {"Car", "Driver"} \subseteq Keys(library)

\* the examinations of verifyStack entered at parameter iParameter of focus:
\* for each parameter the loop reaches, the stack as it is when the
\* parameter is looked up, the constructor whose parameter it is and the
\* parameter type
RECURSIVE Examined(_, _, _, _, _)
Examined(strat, entries, focus, stack, iParameter) ==
  IF iParameter > Len(focus.in)
  THEN {}
  ELSE LET parameterType == focus.in[iParameter]
           f == Find(strat, entries, parameterType, NoReorder)
           next == f.value.ConstructorType
           pushed == Append(stack, next)
           sub == verifyStack(strat, entries, next, pushed, 1)
           here == [stack |-> stack, focus |-> focus, parameter |-> parameterType]
       IN IF ~f.found \/ \E r \in 1..Len(stack) : stack[r] = next
          THEN {here}
          ELSE {here} \cup Examined(strat, entries, next, pushed, 1)
                      \cup (IF sub.err # NoError
                            THEN {}
                            ELSE Examined(strat, entries, focus, sub.stack,
                                          iParameter + 1))

\* stack is a path of the dependency graph from root to focus: each
\* signature is the registered constructor of a parameter of the one before
\* it, and none occurs twice
IsPath(entries, stack, root, focus) ==
  /\ stack # <<>>
  /\ stack[1] = root
  /\ stack[Len(stack)] = focus
  /\ \A i, j \in 1..Len(stack) : i # j => stack[i] # stack[j]
  /\ \A j \in 1..(Len(stack) - 1) :
       \E i \in 1..Len(stack[j].in) :
         /\ stack[j].in[i] \in Keys(entries)
         /\ InfoOf(entries, stack[j].in[i]).ConstructorType = stack[j + 1]

\* the traversal verify starts for the root key
Traversal(strat, entries, key) ==
  LET root == InfoOf(entries, key).ConstructorType
  IN [ root |-> root,
       examined |-> Examined(strat, entries, root, <<root>>, 1),
       result |-> verifyStack(strat, entries, root, <<root>>, 1) ]

\* C39: in the traversal Verify runs for a registered key, whenever a
\* parameter of a constructor is examined the stack holds exactly the
\* signatures on the path from the root to that constructor; a traversal
\* that succeeds ends with the stack empty; a registry without a loop is
\* never reported as one, however often a key is reached; and a traversal
\* that fails leaves on the stack the path from the root to the constructor
\* whose parameter is missing or closes the loop.
C39_StackIsPath ==
  [][ (last'.op = "Verify" /\ Alive') =>
        \A key \in Keys(library) :
          LET t == Traversal(strategy, library, key)
              top == t.result.stack[Len(t.result.stack)]
          IN /\ \A e \in t.examined : IsPath(library, e.stack, t.root, e.focus)
             /\ t.result.err = NoError => t.result.stack = <<>>
             /\ ~HasLoop(library) => t.result.err.kind # "DependencyLoop"
             /\ t.result.err # NoError =>
                  /\ IsPath(library, t.result.stack, t.root, top)
                  /\ \E i \in 1..Len(top.in) :
                       IF top.in[i] \in Keys(library)
                       THEN /\ t.result.err.kind = "DependencyLoop"
                            /\ \E r \in 1..Len(t.result.stack) :
                                 t.result.stack[r] =
                                   InfoOf(library, top.in[i]).ConstructorType
                       ELSE t.result.err =
                              ErrorOf("NotRegistered", TypeName(top.in[i])) ]_vars

\* Verify failed two constructors below the root: Car's constructor takes
\* *RegularDriver, whose constructor takes the Driver that is not registered
C39_Witness ==
  /\ last.op = "Verify"
  /\ last.err.kind = "NotRegistered"
  /\ last.err.chain = 2
  /\ "Driver" \notin Keys(library)
  /\ "Car" \in Keys(library)
  /\ Traversal(strategy, library, "Car").result.stack =
       <<Constructors["NewTandemCar"], Constructors["WrapDriver"]>>
  /\ Cardinality(Traversal(strategy, library, "Car").examined) = 2

\* C40: the closure of a record is built at most once: a Get on a verified
\* injector builds no closure for a key whose record already holds one,
\* whatever the lifecycle and whether or not the constructor returned an
\* error before, and builds none twice.
C40_InvokerBuiltOnce ==
  [][ (last'.op = "Get" /\ last'.verifiedBefore) =>
        /\ \A i \in 1..Len(last'.built) :
             ~InfoOf(library, last'.built[i]).ConstructorFunction
        /\ \A i, j \in 1..Len(last'.built) :
             i # j => last'.built[i] # last'.built[j] ]_vars

====
